---- MODULE Spec2Model ----
(***************************************************************************)
(* A model of the functional-redis client (src/library/client.js,          *)
(* src/library/RedisRequest.js, src/library/RedisResponse.js).             *)
(*                                                                         *)
(* Bytes are integers 0..255 and a Uint8Array is a sequence of bytes.  A   *)
(* JavaScript string is a sequence of code points; encodeText is UTF-8.    *)
(* A RedisRequest is a record [command, raw, arguments]; an argument is a  *)
(* record [ph, text]: ph is TRUE for the $$rawPlaceholder symbol.          *)
(* A Task is modelled by its outcome: it resolves ("ok"), or it fails      *)
(* ("failed": a thrown exception or a rejected I/O promise), and chain     *)
(* runs its continuation only after the task resolved.                     *)
(***************************************************************************)
EXTENDS Integers, Sequences, FiniteSets, TLC

VARIABLES
  pc,          \* the position of the running operation
  request,     \* the RedisRequest handed to encodeRedisRequest
  encoded,     \* what encodeRedisRequest returned (or that it threw)
  program,     \* the requests (pipeline) or steps (pipe) of the operation
  cursor,      \* replies read so far (pipeline) or steps started (pipe)
  outbound,    \* the chunks written to the connection, one per write call
  inbound,     \* the bytes the server sent that no read has consumed yet
  serverOut,   \* the replies the server has put on the stream, in order
  responses,   \* the RedisResponse values read, in order
  result,      \* the value the task resolved with
  calls,       \* the arguments each function step of pipeRedisCommand got
  store,       \* the key/value store of the server
  conn,        \* the connection: "none", "open", "closed", "refused"
  closeCount   \* how many times close ran on the connection

vars == << pc, request, encoded, program, cursor, outbound, inbound, serverOut,
           responses, result, calls, store, conn, closeCount >>

(***************************************************************************)
(* Character codes.                                                        *)
(***************************************************************************)
CHARACTER_CODE_CL == 13
CHARACTER_CODE_RF == 10
CHARACTER_CODE_REDIS_SIMPLE_STRING_REPLY == 43
CHARACTER_CODE_REDIS_INTEGER_REPLY == 58
CHARACTER_CODE_REDIS_BULK_STRING_REPLY == 36
CHARACTER_CODE_REDIS_ERROR_REPLY == 45
CHARACTER_CODE_REDIS_ARRAY_REPLY == 42
CHARACTER_CODE_MINUS == 45
CHARACTER_CODE_ZERO == 48

CRLF == << CHARACTER_CODE_CL, CHARACTER_CODE_RF >>

(***************************************************************************)
(* Generic sequence helpers.                                               *)
(***************************************************************************)
RECURSIVE Flatten(_)
Flatten(seqs) ==
  IF seqs = << >> THEN << >> ELSE Head(seqs) \o Flatten(Tail(seqs))

Drop(s, n) == SubSeq(s, n + 1, Len(s))

Take(s, n) == SubSeq(s, 1, n)

EndsWithCRLF(s) ==
  /\ Len(s) >= 2
  /\ s[Len(s) - 1] = CHARACTER_CODE_CL
  /\ s[Len(s)] = CHARACTER_CODE_RF

StartsWithCRLF(s) ==
  /\ Len(s) >= 2
  /\ s[1] = CHARACTER_CODE_CL
  /\ s[2] = CHARACTER_CODE_RF

\* The template literal `${n}` of a non-negative integer: its decimal digits.
RECURSIVE DecimalText(_)
DecimalText(n) ==
  IF n < 10 THEN << CHARACTER_CODE_ZERO + n >>
  ELSE DecimalText(n \div 10) \o << CHARACTER_CODE_ZERO + (n % 10) >>

\* encodeText: the UTF-8 bytes of a string (code points below 2048).
RECURSIVE encodeText(_)
encodeText(s) ==
  IF s = << >> THEN << >>
  ELSE (IF Head(s) < 128 THEN << Head(s) >>
        ELSE << 192 + (Head(s) \div 64), 128 + (Head(s) % 64) >>)
       \o encodeText(Tail(s))

(***************************************************************************)
(* functional_io utilities used by the codec.                              *)
(***************************************************************************)
\* splitCLRF: cuts after every CR LF, the CR LF kept at the end of its piece;
\* no empty piece follows a final CR LF.
RECURSIVE splitCLRFFrom(_, _, _)
splitCLRFFrom(bytes, index, accumulator) ==
  IF index > Len(bytes) THEN accumulator
  ELSE LET last == Len(accumulator)
           pushed == [accumulator EXCEPT ![last] = @ \o << bytes[index] >>]
           atCRLF == /\ bytes[index] = CHARACTER_CODE_RF
                     /\ index > 1
                     /\ bytes[index - 1] = CHARACTER_CODE_CL
       IN splitCLRFFrom(bytes, index + 1,
            IF atCRLF /\ index < Len(bytes) THEN Append(pushed, << >>) ELSE pushed)

splitCLRF(bytes) == splitCLRFFrom(bytes, 1, << << >> >>)

\* trimCRLF: the bytes without a CR LF at the beginning and at the end.
trimCRLF(bytes) ==
  LET front == IF StartsWithCRLF(bytes) THEN Drop(bytes, 2) ELSE bytes
  IN IF EndsWithCRLF(front) THEN Take(front, Len(front) - 2) ELSE front

(***************************************************************************)
(* encodeRedisRequest                                                      *)
(***************************************************************************)
Placeholder == [ph |-> TRUE, text |-> << >>]

Text(s) == [ph |-> FALSE, text |-> s]

RedisRequest(command, raw, arguments) ==
  [command |-> command, raw |-> raw, arguments |-> arguments]

\* The value of a thrown exception (TypeError on a missing segment).
Thrown == [ok |-> FALSE, bytes |-> << >>]

Returned(bytes) == [ok |-> TRUE, bytes |-> bytes]

\* A header whose count leaves the command out.
encodeHeaderWithoutCommand(redisRequest) ==
  encodeText(
    << CHARACTER_CODE_REDIS_ARRAY_REPLY >>
      \o DecimalText(Len(redisRequest.arguments)) \o CRLF
      \o << CHARACTER_CODE_REDIS_BULK_STRING_REPLY >>
      \o DecimalText(Len(redisRequest.command)) \o CRLF
      \o redisRequest.command \o CRLF)

\* `*${1 + argumentList.length}\r\n$${command.length}\r\n${command}\r\n`
encodeHeader(redisRequest) ==
  encodeText(
    << CHARACTER_CODE_REDIS_ARRAY_REPLY >>
      \o DecimalText(1 + Len(redisRequest.arguments)) \o CRLF
      \o << CHARACTER_CODE_REDIS_BULK_STRING_REPLY >>
      \o DecimalText(Len(redisRequest.command)) \o CRLF
      \o redisRequest.command \o CRLF)

\* The pieces of the payload, not trimmed.
encodeSegmentsUntrimmed(redisRequest) == splitCLRF(redisRequest.raw)

\* The segments of the payload: compose(map(trimCRLF), splitCLRF, prop("raw")).
encodeSegments(redisRequest) ==
  LET pieces == splitCLRF(redisRequest.raw)
  IN [i \in 1..Len(pieces) |-> trimCRLF(pieces[i])]

\* One step of the reduce over the arguments.  The accumulator is a Pair of
\* the bytes so far and the segments left; reading byteLength of a missing
\* segment throws.
encodeArgument(accumulator, value) ==
  IF ~accumulator.ok THEN accumulator
  ELSE IF value.ph
  THEN IF accumulator.second = << >>
       THEN [ok |-> FALSE, first |-> << >>, second |-> << >>]
       ELSE [ok |-> TRUE,
             first |-> accumulator.first
                        \o encodeText(<< CHARACTER_CODE_REDIS_BULK_STRING_REPLY >>
                                        \o DecimalText(Len(Head(accumulator.second))))
                        \o CRLF
                        \o Head(accumulator.second)
                        \o CRLF,
             second |-> Tail(accumulator.second)]
  ELSE [ok |-> TRUE,
        first |-> accumulator.first
                   \o encodeText(<< CHARACTER_CODE_REDIS_BULK_STRING_REPLY >>
                                   \o DecimalText(Len(encodeText(value.text)))
                                   \o CRLF \o value.text \o CRLF),
        second |-> accumulator.second]

RECURSIVE encodeReduce(_, _)
encodeReduce(accumulator, arguments) ==
  IF arguments = << >> THEN accumulator
  ELSE encodeReduce(encodeArgument(accumulator, Head(arguments)), Tail(arguments))

encodeRedisRequest(redisRequest) ==
  LET final == encodeReduce(
                 [ok |-> TRUE,
                  first |-> encodeHeader(redisRequest),
                  second |-> encodeSegments(redisRequest)],
                 redisRequest.arguments)
  IN IF final.ok THEN Returned(final.first) ELSE Thrown

(***************************************************************************)
(* Reading from the connection: readLine and readNBytes of functional_io.  *)
(* A read returns [status, raw, rest]: status is "ok", "short" (the stream *)
(* holds too few bytes yet), "failed" (an exception) or "diverges" (the    *)
(* loop building the reads never ends); rest is the stream left unread.    *)
(***************************************************************************)
ReadResult(status, raw, rest) == [status |-> status, raw |-> raw, rest |-> rest]

\* The index of the LF of the first CR LF of the stream, 0 when it has none.
RECURSIVE findCRLFIndexFrom(_, _)
findCRLFIndexFrom(bytes, index) ==
  IF index > Len(bytes) THEN 0
  ELSE IF bytes[index] = CHARACTER_CODE_RF /\ index > 1
          /\ bytes[index - 1] = CHARACTER_CODE_CL
  THEN index
  ELSE findCRLFIndexFrom(bytes, index + 1)

findCRLFIndex(bytes) == findCRLFIndexFrom(bytes, 1)

\* readLine: the bytes through the first CR LF.
readLine(stream) ==
  LET end == findCRLFIndex(stream)
  IN IF end = 0 THEN ReadResult("short", << >>, stream)
     ELSE ReadResult("ok", Take(stream, end), Drop(stream, end))

\* readNBytes: exactly n bytes.
readNBytes(n, stream) ==
  IF Len(stream) < n THEN ReadResult("short", << >>, stream)
  ELSE ReadResult("ok", Take(stream, n), Drop(stream, n))

(***************************************************************************)
(* Number(match(/\$([\-0-9]+)\r\n/)[1]) of a header line: a record [nan, n].*)
(***************************************************************************)
NaN == [nan |-> TRUE, n |-> 0]

Num(n) == [nan |-> FALSE, n |-> n]

IsLengthCharacter(c) ==
  c = CHARACTER_CODE_MINUS \/ (c >= CHARACTER_CODE_ZERO /\ c <= CHARACTER_CODE_ZERO + 9)

RECURSIVE DecimalValue(_)
DecimalValue(digits) ==
  IF digits = << >> THEN 0
  ELSE 10 * DecimalValue(Take(digits, Len(digits) - 1))
       + (digits[Len(digits)] - CHARACTER_CODE_ZERO)

\* Number of a string made of "-" and digits.
NumberOf(text) ==
  LET minus == { i \in 1..Len(text) : text[i] = CHARACTER_CODE_MINUS }
  IN IF text = << >> THEN NaN
     ELSE IF minus = { } THEN Num(DecimalValue(text))
     ELSE IF minus = { 1 } /\ Len(text) > 1 THEN Num(0 - DecimalValue(Tail(text)))
     ELSE NaN

\* The capture of /<sigil>([\-0-9]+)\r\n/ in a line read by readLine: the run
\* between the last sigil of the line and its CR LF; no match gives NaN.
matchLength(sigil, line) ==
  LET sigils == { i \in 1..Len(line) : line[i] = sigil }
      last == CHOOSE i \in sigils : \A j \in sigils : j <= i
      capture == SubSeq(line, last + 1, Len(line) - 2)
  IN IF sigils = { } \/ ~EndsWithCRLF(line) THEN NaN
     ELSE IF capture # << >> /\ \A i \in 1..Len(capture) : IsLengthCharacter(capture[i])
     THEN NumberOf(capture)
     ELSE NaN

(***************************************************************************)
(* readRedisResponseFragment, readRedisNextLine, readRedisResponse         *)
(***************************************************************************)
\* A bulk read that takes the n bytes of the body and leaves its CR LF.
readBulkResponseWithoutCRLF(line, stream) ==
  LET length == matchLength(CHARACTER_CODE_REDIS_BULK_STRING_REPLY, line)
  IN IF ~length.nan /\ length.n >= 0
     THEN LET body == readNBytes(length.n, stream)
          IN IF body.status = "ok"
             THEN ReadResult("ok", line \o body.raw, body.rest)
             ELSE ReadResult(body.status, << >>, stream)
     ELSE ReadResult("ok", line \o line, stream)

\* readBulkResponse: the n + 2 bytes after the header line, appended to it;
\* without a length that is >= 0 nothing is read and the resource is
\* concatenated with its own copy.
readBulkResponse(line, stream) ==
  LET length == matchLength(CHARACTER_CODE_REDIS_BULK_STRING_REPLY, line)
  IN IF ~length.nan /\ length.n >= 0
     THEN LET body == readNBytes(length.n + 2, stream)
          IN IF body.status = "ok"
             THEN ReadResult("ok", line \o body.raw, body.rest)
             ELSE ReadResult(body.status, << >>, stream)
     ELSE ReadResult("ok", line \o line, stream)

RECURSIVE readRedisResponseFragment(_, _)
RECURSIVE readArrayElements(_, _, _, _)

\* The chainRec loop of the array branch: cursor counts up from 0 until it
\* equals count, each turn appending what readRedisNextLine read.
readArrayElements(cursorAt, count, raw, stream) ==
  IF cursorAt = count THEN ReadResult("ok", raw, stream)
  ELSE LET line == readLine(stream)
           element == IF line.status = "ok"
                      THEN readRedisResponseFragment(line.raw, line.rest)
                      ELSE line
       IN IF element.status = "ok"
          THEN readArrayElements(cursorAt + 1, count, raw \o element.raw, element.rest)
          ELSE ReadResult(element.status, << >>, stream)

readRedisResponseFragment(line, stream) ==
  IF \/ line[1] \in { CHARACTER_CODE_REDIS_SIMPLE_STRING_REPLY,
                      CHARACTER_CODE_REDIS_ERROR_REPLY,
                      CHARACTER_CODE_REDIS_INTEGER_REPLY }
     \/ /\ line[1] = CHARACTER_CODE_REDIS_BULK_STRING_REPLY
        /\ line[2] = CHARACTER_CODE_REDIS_ERROR_REPLY
  THEN ReadResult("ok", line, stream)
  ELSE IF line[1] = CHARACTER_CODE_REDIS_BULK_STRING_REPLY
  THEN readBulkResponse(line, stream)
  ELSE IF line[1] = CHARACTER_CODE_REDIS_ARRAY_REPLY
  THEN LET count == matchLength(CHARACTER_CODE_REDIS_ARRAY_REPLY, line)
       IN IF count.nan \/ count.n < 0
          THEN ReadResult("diverges", << >>, stream)
          ELSE readArrayElements(0, count.n, line, stream)
  ELSE ReadResult("failed", << >>, stream)

Success(raw) == [tag |-> "Success", raw |-> raw]

Failure(raw) == [tag |-> "Failure", raw |-> raw]

\* A choice that looks at the first byte only.
factorizeRedisResponseFirstByte(raw) ==
  IF raw[1] = CHARACTER_CODE_REDIS_ERROR_REPLY THEN Failure(raw) ELSE Success(raw)

\* The Success/Failure choice of readRedisResponse.
factorizeRedisResponse(raw) ==
  IF \/ raw[1] = CHARACTER_CODE_REDIS_ERROR_REPLY
     \/ /\ raw[1] = CHARACTER_CODE_REDIS_BULK_STRING_REPLY
        /\ raw[2] = CHARACTER_CODE_REDIS_ERROR_REPLY
  THEN Failure(raw)
  ELSE Success(raw)

\* readRedisResponse: [status, response, rest].
readRedisResponse(stream) ==
  LET line == readLine(stream)
      fragment == IF line.status = "ok"
                  THEN readRedisResponseFragment(line.raw, line.rest)
                  ELSE line
  IN IF fragment.status = "ok"
     THEN [status |-> "ok", response |-> factorizeRedisResponse(fragment.raw),
           rest |-> fragment.rest]
     ELSE [status |-> fragment.status, response |-> Success(<< >>), rest |-> stream]

(***************************************************************************)
(* The values the checked runs draw from.                                  *)
(***************************************************************************)
MaxArguments == 3

MaxPayloadUnits == 3

SeqsUpTo(S, n) == UNION { [1..k -> S] : k \in 0..n }

\* "SET", "GET", "MSET"
CommandSET == << 83, 69, 84 >>

CommandGET == << 71, 69, 84 >>

CommandMSET == << 77, 83, 69, 84 >>

\* "hoge", "fuga", "piyo", a one-character non-ASCII string, a ten-byte string
TextHoge == << 104, 111, 103, 101 >>

TextFuga == << 102, 117, 103, 97 >>

TextPiyo == << 112, 105, 121, 111 >>

TextNonAscii == << 233 >>

TextLong == TextHoge \o TextFuga \o << 112, 105 >>

\* Payloads are runs of units: a byte "p", a byte "-", or the pair CR LF.
PayloadUnits == { << 112 >>, << CHARACTER_CODE_MINUS >>, CRLF }

Payloads == { Flatten(units) : units \in SeqsUpTo(PayloadUnits, MaxPayloadUnits) }

ArgumentValues ==
  { Placeholder, Text(TextHoge), Text(<< >>), Text(TextNonAscii), Text(TextLong) }

EncodeRequests ==
  { RedisRequest(c, p, a) :
      c \in { CommandSET, CommandMSET },
      p \in Payloads,
      a \in SeqsUpTo(ArgumentValues, MaxArguments) }

NoRequest == RedisRequest(<< >>, << >>, << >>)

NotEncoded == [ok |-> FALSE, bytes |-> << >>]

(***************************************************************************)
(* SpecEncode: encodeRedisRequest applied to one request.                  *)
(***************************************************************************)
IdleConnection ==
  /\ program = << >>
  /\ cursor = 0
  /\ outbound = << >>
  /\ inbound = << >>
  /\ serverOut = << >>
  /\ responses = << >>
  /\ result = << >>
  /\ calls = << >>
  /\ store = << >>
  /\ conn = "none"
  /\ closeCount = 0

InitEncode ==
  /\ pc = "encode"
  /\ request \in EncodeRequests
  /\ encoded = NotEncoded
  /\ IdleConnection

EncodeRequest ==
  /\ pc = "encode"
  /\ encoded' = encodeRedisRequest(request)
  /\ pc' = "encoded"
  /\ UNCHANGED << request, program, cursor, outbound, inbound, serverOut,
                  responses, result, calls, store, conn, closeCount >>

NextEncode == EncodeRequest

SpecEncode == InitEncode /\ [][NextEncode]_vars

(***************************************************************************)
(* Claims about encodeRedisRequest (SpecEncode).                           *)
(***************************************************************************)
NumPlaceholders(arguments) ==
  Cardinality({ i \in 1..Len(arguments) : arguments[i].ph })

\* bulk(s) = "$" ++ len(s) ++ "\r\n" ++ s ++ "\r\n", of a byte string s
BulkOf(bytes) ==
  << CHARACTER_CODE_REDIS_BULK_STRING_REPLY >> \o DecimalText(Len(bytes)) \o CRLF
    \o bytes \o CRLF

ExpectedPlainEncoding(redisRequest) ==
  << CHARACTER_CODE_REDIS_ARRAY_REPLY >>
    \o DecimalText(Len(redisRequest.arguments) + 1) \o CRLF
    \o BulkOf(encodeText(redisRequest.command))
    \o Flatten([i \in 1..Len(redisRequest.arguments) |->
                  BulkOf(encodeText(redisRequest.arguments[i].text))])

\* C4: a request without placeholders encodes to "*<k+1>\r\n", then the bulk
\* string of the command name, then the bulk string of each of the k
\* arguments in order, every bulk string carrying the byte length of its body.
C4_PlainEncoding ==
  (pc = "encoded" /\ NumPlaceholders(request.arguments) = 0)
    => encoded = Returned(ExpectedPlainEncoding(request))

\* C4 witness: a request with a multi-byte character and a ten-byte argument
\* and no placeholder has been encoded.
C4_Witness ==
  /\ pc = "encoded"
  /\ encoded.ok
  /\ NumPlaceholders(request.arguments) = 0
  /\ Len(request.arguments) = 3
  /\ \E i \in 1..3 : request.arguments[i] = Text(TextNonAscii)
  /\ \E i \in 1..3 : request.arguments[i] = Text(TextLong)

\* The CRLF-separated segments of a payload: the payload split at every CR LF,
\* the delimiters dropped, and one trailing CR LF opening no further segment.
\* The empty payload supplies no segment.
RECURSIVE SplitAtCRLF(_, _)
SplitAtCRLF(bytes, current) ==
  IF bytes = << >> THEN << current >>
  ELSE IF StartsWithCRLF(bytes)
  THEN << current >> \o SplitAtCRLF(Drop(bytes, 2), << >>)
  ELSE SplitAtCRLF(Tail(bytes), Append(current, Head(bytes)))

PayloadSegments(bytes) ==
  IF bytes = << >> THEN << >>
  ELSE LET all == SplitAtCRLF(bytes, << >>)
       IN IF EndsWithCRLF(bytes) THEN Take(all, Len(all) - 1) ELSE all

\* The arguments with the i-th placeholder replaced by the i-th segment.
RECURSIVE SubstituteSegments(_, _)
SubstituteSegments(arguments, segments) ==
  IF arguments = << >> THEN << >>
  ELSE IF Head(arguments).ph
  THEN << Text(Head(segments)) >> \o SubstituteSegments(Tail(arguments), Tail(segments))
  ELSE << Head(arguments) >> \o SubstituteSegments(Tail(arguments), segments)

WellFormedRequest(redisRequest) ==
  NumPlaceholders(redisRequest.arguments) = Len(PayloadSegments(redisRequest.raw))

\* C5: when the placeholder count equals the payload's segment count, the
\* encoding equals that of the request with an empty payload and each
\* placeholder replaced, left to right, by the payload's segments; and the
\* same payload followed by one more CR LF encodes to the same bytes.
C5_PlaceholderSubstitution ==
  (pc = "encoded" /\ WellFormedRequest(request))
    => /\ encoded.ok
       /\ encoded =
            encodeRedisRequest(
              RedisRequest(request.command, << >>,
                SubstituteSegments(request.arguments, PayloadSegments(request.raw))))
       /\ encoded =
            encodeRedisRequest(
              RedisRequest(request.command, request.raw \o CRLF, request.arguments))

\* C5 witness: a request with two placeholders and the two-segment payload
\* "p\r\n-" has been encoded.
C5_Witness ==
  /\ pc = "encoded"
  /\ encoded.ok
  /\ WellFormedRequest(request)
  /\ NumPlaceholders(request.arguments) = 2
  /\ request.raw = << 112 >> \o CRLF \o << CHARACTER_CODE_MINUS >>
  /\ PayloadSegments(request.raw) = << << 112 >>, << CHARACTER_CODE_MINUS >> >>

\* C6 (as claimed): whenever the placeholder count differs from the payload's
\* segment count, encodeRedisRequest fails and produces no bytes.
\* An empty payload under a single placeholder (what a value-slot shorthand
\* builds from an empty buffer) is counted here as supplying its one empty
\* segment, so that it is no mismatch.
MismatchedRequest(redisRequest) ==
  /\ ~WellFormedRequest(redisRequest)
  /\ ~(redisRequest.raw = << >> /\ NumPlaceholders(redisRequest.arguments) = 1)

C6_MismatchFails ==
  (pc = "encoded" /\ MismatchedRequest(request))
    => (~encoded.ok /\ encoded.bytes = << >>)

(***************************************************************************)
(* The replies a RESP-2 server sends.                                      *)
(***************************************************************************)
MaxArrayLength == 2

SimpleStringReply(text) == << CHARACTER_CODE_REDIS_SIMPLE_STRING_REPLY >> \o text \o CRLF

ErrorReply(text) == << CHARACTER_CODE_REDIS_ERROR_REPLY >> \o text \o CRLF

IntegerReply(n) == << CHARACTER_CODE_REDIS_INTEGER_REPLY >> \o DecimalText(n) \o CRLF

BulkStringReply(body) ==
  << CHARACTER_CODE_REDIS_BULK_STRING_REPLY >> \o DecimalText(Len(body)) \o CRLF
    \o body \o CRLF

NullBulkReply ==
  << CHARACTER_CODE_REDIS_BULK_STRING_REPLY, CHARACTER_CODE_MINUS,
     CHARACTER_CODE_ZERO + 1 >> \o CRLF

NullArrayReply ==
  << CHARACTER_CODE_REDIS_ARRAY_REPLY, CHARACTER_CODE_MINUS,
     CHARACTER_CODE_ZERO + 1 >> \o CRLF

ArrayReply(elements) ==
  << CHARACTER_CODE_REDIS_ARRAY_REPLY >> \o DecimalText(Len(elements)) \o CRLF
    \o Flatten(elements)

\* "OK", "ERR"
TextOK == << 79, 75 >>

TextERR == << 69, 82, 82 >>

\* Bulk bodies: empty, "piyo", ten bytes, "-p", ":1", "$1", CR LF, "p" CR LF "p"
BulkBodies ==
  { << >>, TextPiyo, TextLong,
    << CHARACTER_CODE_MINUS, 112 >>,
    << CHARACTER_CODE_REDIS_INTEGER_REPLY, 49 >>,
    << CHARACTER_CODE_REDIS_BULK_STRING_REPLY, 49 >>,
    CRLF,
    << 112 >> \o CRLF \o << 112 >> }

ScalarReplies ==
  { SimpleStringReply(TextOK), ErrorReply(TextERR), IntegerReply(42), NullBulkReply }
    \cup { BulkStringReply(body) : body \in BulkBodies }

FlatArrayReplies ==
  { ArrayReply(elements) : elements \in SeqsUpTo(ScalarReplies, MaxArrayLength) }

InnerArrayReplies ==
  { ArrayReply(<< >>),
    ArrayReply(<< BulkStringReply(TextPiyo) >>),
    ArrayReply(<< IntegerReply(42), NullBulkReply >>),
    ArrayReply(<< ArrayReply(<< SimpleStringReply(TextOK) >>) >>) }

NestedArrayReplies ==
  { ArrayReply(elements) :
      elements \in { e \in SeqsUpTo(InnerArrayReplies \cup { IntegerReply(42) },
                                    MaxArrayLength) :
                       \E i \in 1..Len(e) : e[i] \in InnerArrayReplies } }

WellFormedReplies == ScalarReplies \cup FlatArrayReplies \cup NestedArrayReplies

\* What follows a reply on the stream: nothing, a whole reply, part of one.
StreamTails ==
  { << >>, SimpleStringReply(TextOK), Take(BulkStringReply(TextPiyo), 6) }

(***************************************************************************)
(* SpecRead: readRedisResponse applied to a stream that starts with one    *)
(* reply.  serverOut holds the reply and the bytes that follow it.         *)
(***************************************************************************)
InitRead ==
  /\ pc = "read"
  /\ request = NoRequest
  /\ encoded = NotEncoded
  /\ program = << >>
  /\ cursor = 0
  /\ outbound = << >>
  /\ \E reply \in WellFormedReplies, tail \in StreamTails :
       /\ serverOut = << reply, tail >>
       /\ inbound = reply \o tail
  /\ responses = << >>
  /\ result = << >>
  /\ calls = << >>
  /\ store = << >>
  /\ conn = "open"
  /\ closeCount = 0

ReadResponse ==
  /\ pc = "read"
  /\ LET read == readRedisResponse(inbound)
     IN /\ read.status # "short"
        /\ IF read.status = "ok"
           THEN /\ responses' = Append(responses, read.response)
                /\ inbound' = read.rest
                /\ pc' = "read_done"
           ELSE /\ pc' = "read_" \o read.status
                /\ UNCHANGED << responses, inbound >>
  /\ UNCHANGED << request, encoded, program, cursor, outbound, serverOut,
                  result, calls, store, conn, closeCount >>

NextRead == ReadResponse

SpecRead == InitRead /\ [][NextRead]_vars

ServerRead(status, arguments, rest) ==
  [status |-> status, arguments |-> arguments, rest |-> rest]

\* The count bulk strings of one request.
RECURSIVE serverReadArguments(_, _, _)
serverReadArguments(count, arguments, stream) ==
  IF count = 0 THEN ServerRead("ok", arguments, stream)
  ELSE LET header == readLine(stream)
           length == matchLength(CHARACTER_CODE_REDIS_BULK_STRING_REPLY, header.raw)
           body == readNBytes(length.n + 2, header.rest)
       IN IF header.status # "ok" THEN ServerRead("short", << >>, stream)
          ELSE IF length.nan \/ length.n < 0 THEN ServerRead("failed", << >>, stream)
          ELSE IF body.status # "ok" THEN ServerRead("short", << >>, stream)
          ELSE serverReadArguments(count - 1,
                 Append(arguments, Take(body.raw, length.n)), body.rest)

\* The first request of the stream.
RECURSIVE serverReadRequest(_)
serverReadRequest(stream) ==
  IF StartsWithCRLF(stream) THEN serverReadRequest(Drop(stream, 2))
  ELSE LET header == readLine(stream)
           count == matchLength(CHARACTER_CODE_REDIS_ARRAY_REPLY, header.raw)
       IN IF header.status # "ok" THEN ServerRead("short", << >>, stream)
          ELSE IF count.nan \/ count.n < 1 THEN ServerRead("failed", << >>, stream)
          ELSE serverReadArguments(count.n, << >>, header.rest)

\* Every complete request of the stream, in order.
RECURSIVE serverRequests(_)
serverRequests(stream) ==
  LET first == serverReadRequest(stream)
  IN IF first.status # "ok" THEN << >>
     ELSE << first.arguments >> \o serverRequests(first.rest)

\* The requests the server has received on the connection.
ReceivedRequests == serverRequests(Flatten(outbound))

\* The server answers the next unanswered request with a reply of the set.
ServerReply(replies) ==
  /\ conn = "open"
  /\ Len(serverOut) < Len(ReceivedRequests)
  /\ \E reply \in replies :
       /\ serverOut' = Append(serverOut, reply)
       /\ inbound' = inbound \o reply

(***************************************************************************)
(* writeRedisPipeline and readMultipleRedisResponse.                       *)
(***************************************************************************)
Reverse(list) == [i \in 1..Len(list) |-> list[Len(list) + 1 - i]]

\* A reducer that puts CR LF only between two encodings.
pipelineJoinBetween(accumulator, value) ==
  IF Len(accumulator) > 0
  THEN value \o CRLF \o accumulator
  ELSE value

\* The reducer of writeRedisPipeline.
pipelineJoin(accumulator, value) ==
  IF Len(accumulator) > 0
  THEN value \o << CHARACTER_CODE_CL, CHARACTER_CODE_RF >> \o accumulator
  ELSE value \o << CHARACTER_CODE_CL, CHARACTER_CODE_RF >>

RECURSIVE pipelineReduce(_, _)
pipelineReduce(accumulator, values) ==
  IF values = << >> THEN accumulator
  ELSE pipelineReduce(pipelineJoin(accumulator, Head(values)), Tail(values))

\* The bytes writeRedisPipeline hands to write; Thrown when an encoding throws.
writeRedisPipeline(redisRequestList) ==
  LET encodedList == [i \in 1..Len(redisRequestList) |->
                        encodeRedisRequest(redisRequestList[i])]
  IN IF \E i \in 1..Len(encodedList) : ~encodedList[i].ok
     THEN Thrown
     ELSE Returned(pipelineReduce(<< >>,
            Reverse([i \in 1..Len(encodedList) |-> encodedList[i].bytes])))

\* A loop test that stops one reply early.
readMultipleDoneEarly(cursorAt, count) == cursorAt + 1 >= count

\* cursor === count of readMultipleRedisResponse.
readMultipleDone(cursorAt, count) == cursorAt = count

(***************************************************************************)
(* SpecPipeline: executeRedisCommandPipeline on an open connection.        *)
(***************************************************************************)
MaxPipeline == 3

RequestSetHogePiyo ==
  RedisRequest(CommandSET, TextPiyo, << Text(TextHoge), Placeholder >>)

RequestGetHoge == RedisRequest(CommandGET, << >>, << Text(TextHoge) >>)

\* A placeholder without a payload segment: its encoding throws.
RequestSetHogeNothing ==
  RedisRequest(CommandSET, << >>, << Text(TextHoge), Placeholder, Placeholder >>)

PipelineRequests == { RequestSetHogePiyo, RequestGetHoge, RequestSetHogeNothing }

\* A line with no RESP sigil.
UnknownReply == << 33 >> \o CRLF

PipelineReplies ==
  { SimpleStringReply(TextOK), ErrorReply(TextERR), BulkStringReply(TextPiyo),
    NullBulkReply,
    ArrayReply(<< BulkStringReply(CRLF), IntegerReply(1) >>),
    UnknownReply }

InitPipeline ==
  /\ pc = "pipeline"
  /\ request = NoRequest
  /\ encoded = NotEncoded
  /\ program \in SeqsUpTo(PipelineRequests, MaxPipeline)
  /\ cursor = 0
  /\ outbound = << >>
  /\ inbound = << >>
  /\ serverOut = << >>
  /\ responses = << >>
  /\ result = << >>
  /\ calls = << >>
  /\ store = << >>
  /\ conn = "open"
  /\ closeCount = 0

\* writeRedisPipeline(redisRequestList, resource): one write of all requests.
PipelineWrite ==
  /\ pc = "pipeline"
  /\ LET written == writeRedisPipeline(program)
     IN IF written.ok
        THEN /\ outbound' = Append(outbound, written.bytes)
             /\ pc' = "pipeline_read"
        ELSE /\ pc' = "pipeline_thrown"
             /\ UNCHANGED outbound
  /\ UNCHANGED << request, encoded, program, cursor, inbound, serverOut,
                  responses, result, calls, store, conn, closeCount >>

PipelineServerReply ==
  /\ ServerReply(PipelineReplies)
  /\ UNCHANGED << pc, request, encoded, program, cursor, outbound, responses,
                  result, calls, store, conn, closeCount >>

\* Loop(Pair(cursor + 1, readRedisResponse(resource)))
PipelineRead ==
  /\ pc = "pipeline_read"
  /\ ~readMultipleDone(cursor, Len(program))
  /\ LET read == readRedisResponse(inbound)
     IN /\ read.status # "short"
        /\ IF read.status = "ok"
           THEN /\ responses' = Append(responses, read.response)
                /\ inbound' = read.rest
                /\ cursor' = cursor + 1
                /\ pc' = pc
           ELSE /\ pc' = "pipeline_" \o read.status
                /\ UNCHANGED << responses, inbound, cursor >>
  /\ UNCHANGED << request, encoded, program, outbound, serverOut, result,
                  calls, store, conn, closeCount >>

\* Done(Pair(cursor, null)): the task resolves with the accumulated list.
PipelineDone ==
  /\ pc = "pipeline_read"
  /\ readMultipleDone(cursor, Len(program))
  /\ result' = responses
  /\ pc' = "pipeline_done"
  /\ UNCHANGED << request, encoded, program, cursor, outbound, inbound,
                  serverOut, responses, calls, store, conn, closeCount >>

NextPipeline ==
  \/ PipelineWrite
  \/ PipelineServerReply
  \/ PipelineRead
  \/ PipelineDone

SpecPipeline == InitPipeline /\ [][NextPipeline]_vars

(***************************************************************************)
(* Claims about executeRedisCommandPipeline (SpecPipeline).                *)
(***************************************************************************)
EncodingsOf(redisRequestList) ==
  [i \in 1..Len(redisRequestList) |-> encodeRedisRequest(redisRequestList[i]).bytes]

\* e1 CRLF e2 CRLF ... en: CR LF only between two encodings.
RECURSIVE SeparatedByCRLF(_)
SeparatedByCRLF(encodings) ==
  IF encodings = << >> THEN << >>
  ELSE IF Len(encodings) = 1 THEN Head(encodings)
  ELSE Head(encodings) \o CRLF \o SeparatedByCRLF(Tail(encodings))

\* e1 CRLF e2 CRLF ... en CRLF: CR LF after every encoding.
RECURSIVE TerminatedByCRLF(_)
TerminatedByCRLF(encodings) ==
  IF encodings = << >> THEN << >>
  ELSE Head(encodings) \o CRLF \o TerminatedByCRLF(Tail(encodings))

PipelineWritten == pc \in { "pipeline_read", "pipeline_done" }

\* C1: executeRedisCommandPipeline writes all n requests in one write before
\* any reply is read, never reads more than n replies, and resolves with
\* exactly n responses, the i-th being the i-th reply the server put on the
\* stream.
C1_PipelineRepliesInOrder ==
  /\ cursor = Len(responses)
  /\ cursor <= Len(program)
  /\ responses # << >> =>
       /\ Len(outbound) = 1
       /\ Len(ReceivedRequests) = Len(program)
  /\ pc = "pipeline_done" =>
       /\ Len(result) = Len(program)
       /\ \A i \in 1..Len(result) : result[i] = factorizeRedisResponse(serverOut[i])
       /\ inbound = << >>

\* C1 witness: a pipeline of three requests resolved with three responses,
\* the first a success, the second a failure, the third an array.
C1_Witness ==
  /\ pc = "pipeline_done"
  /\ Len(program) = 3
  /\ result = << Success(SimpleStringReply(TextOK)), Failure(ErrorReply(TextERR)),
                 Success(ArrayReply(<< BulkStringReply(CRLF), IntegerReply(1) >>)) >>

\* C10 (as claimed): the bytes written are the encodings in request order
\* with CR LF only between consecutive encodings and nothing after the last.
C10_SeparatorOnlyBetween ==
  PipelineWritten => Flatten(outbound) = SeparatedByCRLF(EncodingsOf(program))

\* C10 (amended): the bytes written, in one write, are the encodings in
\* request order, each one followed by CR LF, the last one included; an empty
\* pipeline writes no byte.
C10_EveryEncodingTerminated ==
  PipelineWritten =>
    /\ Len(outbound) = 1
    /\ outbound[1] = TerminatedByCRLF(EncodingsOf(program))

\* C10 witness: a pipeline of a SET with a placeholder and a GET was written.
C10_Witness ==
  /\ PipelineWritten
  /\ program = << RequestSetHogePiyo, RequestGetHoge >>
  /\ outbound = << encodeRedisRequest(RequestSetHogePiyo).bytes \o CRLF
                     \o encodeRedisRequest(RequestGetHoge).bytes \o CRLF >>

(***************************************************************************)
(* SpecSession: createRedisSession(executeRedisCommand(request))(options). *)
(*   connectRedisClient(options)                                           *)
(*     .chain(resource => runSequentially(body(resource), close(resource)))*)
(* runSequentially chains its tasks: the second one runs only after the    *)
(* first one resolved.                                                     *)
(***************************************************************************)
SessionRequests == { RequestSetHogePiyo, RequestGetHoge, RequestSetHogeNothing }

SessionReplies == WellFormedReplies \cup { UnknownReply }

InitSession ==
  /\ pc = "session"
  /\ request \in SessionRequests
  /\ encoded = NotEncoded
  /\ IdleConnection

\* connectRedisClient: the connection opens, or the task fails and nothing of
\* the chain runs.
SessionConnect ==
  /\ pc = "session"
  /\ \E opened \in BOOLEAN :
       IF opened
       THEN conn' = "open" /\ pc' = "session_write"
       ELSE conn' = "refused" /\ pc' = "session_failed"
  /\ UNCHANGED << request, encoded, program, cursor, outbound, inbound,
                  serverOut, responses, result, calls, store, closeCount >>

\* writeRedisRequest(request, resource): encodeRedisRequest, then one write.
\* A throw of the encoder or a failed write fails the body's task.
SessionWrite ==
  /\ pc = "session_write"
  /\ encoded' = encodeRedisRequest(request)
  /\ \E written \in BOOLEAN :
       IF encoded'.ok /\ written
       THEN /\ outbound' = Append(outbound, encoded'.bytes)
            /\ pc' = "session_read"
       ELSE /\ pc' = "session_failed"
            /\ UNCHANGED outbound
  /\ UNCHANGED << request, program, cursor, inbound, serverOut, responses,
                  result, calls, store, conn, closeCount >>

SessionServerReply ==
  /\ ServerReply(SessionReplies)
  /\ UNCHANGED << pc, request, encoded, program, cursor, outbound, responses,
                  result, calls, store, conn, closeCount >>

\* A read that sends the request again when the response is a Failure.
SessionReadRetrying ==
  /\ pc = "session_read"
  /\ LET read == readRedisResponse(inbound)
     IN /\ read.status # "short"
        /\ IF read.status = "ok"
           THEN /\ responses' = Append(responses, read.response)
                /\ inbound' = read.rest
                /\ outbound' = IF read.response.tag = "Failure"
                                THEN Append(outbound, encoded.bytes)
                                ELSE outbound
                /\ pc' = "session_close"
           ELSE /\ pc' = "session_failed"
                /\ UNCHANGED << responses, inbound, outbound >>
  /\ UNCHANGED << request, encoded, program, cursor, serverOut,
                  result, calls, store, conn, closeCount >>

\* chain(readRedisResponse): the body's task resolves with the response, or
\* fails when the reply cannot be read.
SessionRead ==
  /\ pc = "session_read"
  /\ LET read == readRedisResponse(inbound)
     IN /\ read.status # "short"
        /\ IF read.status = "ok"
           THEN /\ responses' = Append(responses, read.response)
                /\ inbound' = read.rest
                /\ pc' = "session_close"
           ELSE /\ pc' = "session_failed"
                /\ UNCHANGED << responses, inbound >>
  /\ UNCHANGED << request, encoded, program, cursor, outbound, serverOut,
                  result, calls, store, conn, closeCount >>

\* A close that is carried out when the session's tasks are put together,
\* in front of the body's task.
SessionCloseEager ==
  /\ pc = "session_write"
  /\ conn = "open"
  /\ conn' = "closed"
  /\ closeCount' = closeCount + 1
  /\ UNCHANGED << pc, request, encoded, program, cursor, outbound, inbound,
                  serverOut, responses, result, calls, store >>

\* disconnectRedisClient(resource), chained after the body's task.
SessionClose ==
  /\ pc = "session_close"
  /\ conn' = "closed"
  /\ closeCount' = closeCount + 1
  /\ pc' = "session_done"
  /\ UNCHANGED << request, encoded, program, cursor, outbound, inbound,
                  serverOut, responses, result, calls, store >>

NextSession ==
  \/ SessionConnect
  \/ SessionWrite
  \/ SessionServerReply
  \/ SessionRead
  \/ SessionClose

SpecSession == InitSession /\ [][NextSession]_vars

\* C2 (as claimed): a session run that opened the connection and has ended,
\* with the body's task resolved or failed, has closed the connection exactly
\* once.
C2_ClosedExactlyOnce ==
  (pc \in { "session_done", "session_failed" } /\ conn # "refused")
    => (closeCount = 1 /\ conn = "closed")

(***************************************************************************)
(* parseRedisResponse: the bytes-view of a response.                       *)
(***************************************************************************)
\* discardFirstLine (functional_io): the bytes after the first CR LF.
discardFirstLine(bytes) == Drop(bytes, findCRLFIndex(bytes))

\* slice(from, -2)
sliceToMinus2(from, bytes) ==
  IF Len(bytes) - 2 <= from THEN << >> ELSE SubSeq(bytes, from + 1, Len(bytes) - 2)

\* splitRedisArray: a new piece starts after a CR LF that is followed by one
\* of "$", ":" or "-".
RECURSIVE splitRedisArrayFrom(_, _, _)
splitRedisArrayFrom(characterCodeList, index, accumulator) ==
  IF index > Len(characterCodeList) THEN accumulator
  ELSE LET last == Len(accumulator)
           pushed == [accumulator EXCEPT ![last] = @ \o << characterCodeList[index] >>]
           atCRLF == /\ characterCodeList[index] = CHARACTER_CODE_RF
                     /\ index > 1
                     /\ characterCodeList[index - 1] = CHARACTER_CODE_CL
           sliceFlag == /\ index < Len(characterCodeList)
                        /\ characterCodeList[index + 1] \in
                             { CHARACTER_CODE_REDIS_BULK_STRING_REPLY,
                               CHARACTER_CODE_REDIS_INTEGER_REPLY,
                               CHARACTER_CODE_REDIS_ERROR_REPLY }
       IN splitRedisArrayFrom(characterCodeList, index + 1,
            IF atCRLF /\ sliceFlag THEN Append(pushed, << >>) ELSE pushed)

splitRedisArray(characterCodeList) ==
  splitRedisArrayFrom(characterCodeList, 1, << << >> >>)

\* What a cond returns when no branch matches.
Undefined == [defined |-> FALSE, bytes |-> << >>]

Defined(bytes) == [defined |-> TRUE, bytes |-> bytes]

\* parseRedisMessage: "+", "-", ":" lose the sigil and the CR LF; "$" loses
\* its header line and the final CR LF; anything else matches no branch.
parseRedisMessage(bytes) ==
  IF bytes = << >> THEN Undefined
  ELSE IF bytes[1] \in { CHARACTER_CODE_REDIS_SIMPLE_STRING_REPLY,
                         CHARACTER_CODE_REDIS_ERROR_REPLY,
                         CHARACTER_CODE_REDIS_INTEGER_REPLY }
  THEN Defined(sliceToMinus2(1, bytes))
  ELSE IF bytes[1] = CHARACTER_CODE_REDIS_BULK_STRING_REPLY
  THEN Defined(sliceToMinus2(0, discardFirstLine(bytes)))
  ELSE Undefined

\* The reduce of the array branch: [ ...accumulator, ...parseRedisMessage(b), 10 ];
\* spreading undefined throws.
RECURSIVE parseRedisArrayReduce(_, _)
parseRedisArrayReduce(accumulator, bufferList) ==
  IF bufferList = << >> THEN Returned(accumulator)
  ELSE LET message == parseRedisMessage(Head(bufferList))
       IN IF ~message.defined THEN Thrown
          ELSE parseRedisArrayReduce(
                 accumulator \o message.bytes \o << 10 >>, Tail(bufferList))

\* parseRedisResponse(redisResponse).raw, or Thrown.  A response that was read
\* by readRedisResponse starts with one of the five sigils, so that the second
\* branch always gets a defined value.
parseRedisResponse(redisResponse) ==
  IF redisResponse.raw # << >> /\ redisResponse.raw[1] = CHARACTER_CODE_REDIS_ARRAY_REPLY
  THEN parseRedisArrayReduce(<< >>, splitRedisArray(discardFirstLine(redisResponse.raw)))
  ELSE Returned(parseRedisMessage(redisResponse.raw).bytes)

(***************************************************************************)
(* pipeRedisCommand.                                                       *)
(*   reduce((accumulator, partialRedisRequest) =>                          *)
(*       accumulator.chain(compose(partialExecute, partialRedisRequest,    *)
(*                                 prop("raw"), parseRedisResponse)),      *)
(*     partialExecute(firstRedisRequest),                                  *)
(*     map(ifElse(RedisRequest.is, always, identity), redisRequestList))   *)
(* A step is a concrete RedisRequest or the partial application            *)
(* RedisRequest.set({}, key), which awaits the value.                      *)
(***************************************************************************)
StringValue(text) == [buffer |-> FALSE, bytes |-> text]

BufferValue(bytes) == [buffer |-> TRUE, bytes |-> bytes]

\* RedisRequest.set({}, key, value)
RedisRequestSet(key, value) ==
  RedisRequest(CommandSET,
    IF value.buffer THEN value.bytes ELSE << >>,
    << Text(key), IF value.buffer THEN Placeholder ELSE Text(value.bytes) >>)

\* RedisRequest.get(key)
RedisRequestGet(key) == RedisRequest(CommandGET, << >>, << Text(key) >>)

\* RedisRequest.keys("*")
RequestKeys == RedisRequest(<< 75, 69, 89, 83 >>, << >>, << Text(<< 42 >>) >>)

ConcreteStep(redisRequest) ==
  [kind |-> "request", request |-> redisRequest, key |-> << >>]

PartialSetStep(key) == [kind |-> "function", request |-> NoRequest, key |-> key]

\* partialRedisRequest(raw): always(request)(raw) or set({}, key)(raw)
partialRedisRequest(step, raw) ==
  IF step.kind = "request" THEN step.request
  ELSE RedisRequestSet(step.key, BufferValue(raw))

\* A write that sends the request twice.
writeRedisRequestTwice(redisRequest) ==
  LET once == encodeRedisRequest(redisRequest)
  IN IF once.ok THEN Returned(once.bytes \o once.bytes) ELSE Thrown

\* The bytes writeRedisRequest hands to write; Thrown when the encoder throws.
writeRedisRequest(redisRequest) == encodeRedisRequest(redisRequest)

MaxSteps == 3

PipeFirstRequests == { RequestSetHogePiyo, RequestKeys }

PipeSteps == { ConcreteStep(RequestGetHoge), PartialSetStep(TextFuga) }

PipePrograms ==
  { << ConcreteStep(first) >> \o rest :
      first \in PipeFirstRequests, rest \in SeqsUpTo(PipeSteps, MaxSteps - 1) }

EmptyArrayReply == ArrayReply(<< >>)

PipeReplies ==
  { SimpleStringReply(TextOK), ErrorReply(TextERR), BulkStringReply(TextPiyo),
    NullBulkReply, EmptyArrayReply,
    ArrayReply(<< BulkStringReply(TextPiyo), IntegerReply(1) >>),
    ArrayReply(<< ArrayReply(<< IntegerReply(1) >>) >>),
    UnknownReply }

InitPipe ==
  /\ pc = "pipe"
  /\ request = NoRequest
  /\ encoded = NotEncoded
  /\ program \in PipePrograms
  /\ cursor = 0
  /\ outbound = << >>
  /\ inbound = << >>
  /\ serverOut = << >>
  /\ responses = << >>
  /\ result = << >>
  /\ calls = << >>
  /\ store = << >>
  /\ conn = "open"
  /\ closeCount = 0

\* partialExecute(firstRedisRequest): the first request is written.
PipeStart ==
  /\ pc = "pipe"
  /\ request' = program[1].request
  /\ LET written == writeRedisRequest(request')
     IN IF written.ok
        THEN /\ outbound' = Append(outbound, written.bytes)
             /\ cursor' = 1
             /\ pc' = "pipe_read"
        ELSE /\ pc' = "pipe_thrown"
             /\ UNCHANGED << outbound, cursor >>
  /\ UNCHANGED << encoded, program, inbound, serverOut, responses, result,
                  calls, store, conn, closeCount >>

PipeServerReply ==
  /\ ServerReply(PipeReplies)
  /\ UNCHANGED << pc, request, encoded, program, cursor, outbound, responses,
                  result, calls, store, conn, closeCount >>

\* chain(readRedisResponse) of executeRedisCommand: the step's task resolves
\* with the response, or fails.
PipeRead ==
  /\ pc = "pipe_read"
  /\ LET read == readRedisResponse(inbound)
     IN /\ read.status # "short"
        /\ IF read.status = "ok"
           THEN /\ responses' = Append(responses, read.response)
                /\ inbound' = read.rest
                /\ pc' = "pipe_next"
           ELSE /\ pc' = "pipe_failed"
                /\ UNCHANGED << responses, inbound >>
  /\ UNCHANGED << request, encoded, program, cursor, outbound, serverOut,
                  result, calls, store, conn, closeCount >>

\* A continuation that is skipped when the previous response is a Failure:
\* the pipe ends there.
PipeNextStopping ==
  /\ pc = "pipe_next"
  /\ cursor < Len(program)
  /\ LET parsed == parseRedisResponse(responses[Len(responses)])
         step == program[cursor + 1]
         built == partialRedisRequest(step, parsed.bytes)
         written == writeRedisRequest(built)
     IN IF parsed.ok /\ written.ok /\ responses[Len(responses)].tag # "Failure"
        THEN /\ calls' = IF step.kind = "function"
                         THEN Append(calls, [step |-> cursor + 1, raw |-> parsed.bytes])
                         ELSE calls
             /\ request' = built
             /\ outbound' = Append(outbound, written.bytes)
             /\ cursor' = cursor + 1
             /\ pc' = "pipe_read"
        ELSE /\ pc' = "pipe_thrown"
             /\ UNCHANGED << calls, request, outbound, cursor >>
  /\ UNCHANGED << encoded, program, inbound, serverOut, responses, result,
                  store, conn, closeCount >>

\* The chained continuation of the next step: parseRedisResponse of the
\* previous response, the step applied to its raw bytes, the request written.
PipeNext ==
  /\ pc = "pipe_next"
  /\ cursor < Len(program)
  /\ LET parsed == parseRedisResponse(responses[Len(responses)])
         step == program[cursor + 1]
         built == partialRedisRequest(step, parsed.bytes)
         written == writeRedisRequest(built)
     IN IF parsed.ok /\ written.ok
        THEN /\ calls' = IF step.kind = "function"
                         THEN Append(calls, [step |-> cursor + 1, raw |-> parsed.bytes])
                         ELSE calls
             /\ request' = built
             /\ outbound' = Append(outbound, written.bytes)
             /\ cursor' = cursor + 1
             /\ pc' = "pipe_read"
        ELSE /\ pc' = "pipe_thrown"
             /\ UNCHANGED << calls, request, outbound, cursor >>
  /\ UNCHANGED << encoded, program, inbound, serverOut, responses, result,
                  store, conn, closeCount >>

\* The task of the last step resolved: its response is the final value.
PipeDone ==
  /\ pc = "pipe_next"
  /\ cursor = Len(program)
  /\ result' = << responses[Len(responses)] >>
  /\ pc' = "pipe_done"
  /\ UNCHANGED << request, encoded, program, cursor, outbound, inbound,
                  serverOut, responses, calls, store, conn, closeCount >>

NextPipe ==
  \/ PipeStart
  \/ PipeServerReply
  \/ PipeRead
  \/ PipeNext
  \/ PipeDone

SpecPipe == InitPipe /\ [][NextPipe]_vars

(***************************************************************************)
(* Claims about pipeRedisCommand (SpecPipe).                               *)
(***************************************************************************)
\* C7: pipeRedisCommand runs its steps one after another: every started step
\* made exactly one write holding exactly one request, a step is written only
\* once the replies of all earlier steps have been read completely, and at
\* most one request awaits its reply.
C7_StrictlySequential ==
  /\ Len(outbound) = cursor
  /\ \A k \in 1..Len(outbound) : Len(serverRequests(outbound[k])) = 1
  /\ Len(outbound) - Len(responses) \in { 0, 1 }
  /\ Len(ReceivedRequests) - Len(responses) \in { 0, 1 }
  /\ Len(outbound) = Len(responses) => inbound = << >>
  /\ \A k \in 1..Len(responses) : responses[k].raw = serverOut[k]

\* C7 witness: three steps, the last one a function, ran to the end: three
\* writes and three replies, alternating.
C7_Witness ==
  /\ pc = "pipe_done"
  /\ Len(program) = 3
  /\ program[3].kind = "function"
  /\ Len(outbound) = 3
  /\ Len(responses) = 3

\* C8 (as claimed): a function step is called with the bytes-view of the reply
\* of the step before it; a concrete step is written unchanged whatever the
\* reply before it was, so that the pipe never stops in front of a concrete
\* step whose reply before it was read; the final value is the last reply.
C8_StepsAsClaimed ==
  /\ \A i \in 1..Len(calls) :
       /\ program[calls[i].step].kind = "function"
       /\ parseRedisResponse(responses[calls[i].step - 1]) = Returned(calls[i].raw)
  /\ \A k \in 1..Len(outbound) :
       program[k].kind = "request" =>
         outbound[k] = encodeRedisRequest(program[k].request).bytes
  /\ (pc = "pipe_thrown" /\ cursor >= 1) => program[cursor + 1].kind # "request"
  /\ pc = "pipe_done" => result = << responses[Len(program)] >>

(***************************************************************************)
(* SpecCopy: pipeRedisCommand([ set({}, "hoge", v), get("hoge"),           *)
(* set({}, "fuga") ]) against a server that stores values verbatim.        *)
(***************************************************************************)
\* The bytes a value stands for.
ValueBytes(value) == IF value.buffer THEN value.bytes ELSE encodeText(value.bytes)

CopyValues ==
  { StringValue(text) : text \in Payloads \cup { TextNonAscii } }
    \cup { BufferValue(bytes) : bytes \in Payloads }

CopyProgram(value) ==
  << ConcreteStep(RedisRequestSet(TextHoge, value)),
     ConcreteStep(RedisRequestGet(TextHoge)),
     PartialSetStep(TextFuga) >>

\* The server's store after a request, and its reply: SET key value stores
\* the value and answers +OK, GET key answers the value as a bulk string or
\* the null bulk string.
serverStore(current, arguments) ==
  IF Len(arguments) = 3 /\ arguments[1] = CommandSET
  THEN [key \in (DOMAIN current) \cup { arguments[2] } |->
          IF key = arguments[2] THEN arguments[3] ELSE current[key]]
  ELSE current

serverAnswer(current, arguments) ==
  IF Len(arguments) = 3 /\ arguments[1] = CommandSET
  THEN SimpleStringReply(TextOK)
  ELSE IF Len(arguments) = 2 /\ arguments[1] = CommandGET
  THEN IF arguments[2] \in DOMAIN current
       THEN BulkStringReply(current[arguments[2]])
       ELSE NullBulkReply
  ELSE ErrorReply(TextERR)

InitCopy ==
  /\ pc = "pipe"
  /\ request = NoRequest
  /\ encoded = NotEncoded
  /\ \E value \in CopyValues : program = CopyProgram(value)
  /\ cursor = 0
  /\ outbound = << >>
  /\ inbound = << >>
  /\ serverOut = << >>
  /\ responses = << >>
  /\ result = << >>
  /\ calls = << >>
  /\ store = << >>
  /\ conn = "open"
  /\ closeCount = 0

\* The server executes the next unanswered request.
CopyServerExecute ==
  /\ conn = "open"
  /\ Len(serverOut) < Len(ReceivedRequests)
  /\ LET arguments == ReceivedRequests[Len(serverOut) + 1]
         reply == serverAnswer(store, arguments)
     IN /\ store' = serverStore(store, arguments)
        /\ serverOut' = Append(serverOut, reply)
        /\ inbound' = inbound \o reply
  /\ UNCHANGED << pc, request, encoded, program, cursor, outbound, responses,
                  result, calls, conn, closeCount >>

NextCopy ==
  \/ PipeStart
  \/ CopyServerExecute
  \/ PipeRead
  \/ PipeNext
  \/ PipeDone

SpecCopy == InitCopy /\ [][NextCopy]_vars

\* The value v the first step was built with.
CopiedValue ==
  LET first == program[1].request
  IN IF first.arguments[2].ph THEN first.raw ELSE encodeText(first.arguments[2].text)

\* C9 (as claimed): once the pipe has run, the server holds under "fuga"
\* exactly the value v that the first step set under "hoge".
C9_FugaHoldsValue ==
  pc = "pipe_done" =>
    /\ TextFuga \in DOMAIN store
    /\ store[TextFuga] = CopiedValue

(***************************************************************************)
(* Claims about the Success/Failure classification (SpecRead).             *)
(***************************************************************************)
\* The reply is an error reply or the null bulk string.
LeadsWithError(reply) ==
  \/ reply[1] = CHARACTER_CODE_REDIS_ERROR_REPLY
  \/ /\ reply[1] = CHARACTER_CODE_REDIS_BULK_STRING_REPLY
     /\ reply[2] = CHARACTER_CODE_MINUS

\* C11: the response readRedisResponse returns is a Failure exactly when the
\* reply's first byte is "-" or its first two bytes are "$-", and a Success
\* for every other reply, arrays with error elements included; either way it
\* carries the reply's bytes.
C11_FailureIffLeadingError ==
  pc = "read_done" =>
    /\ responses[1].tag = (IF LeadsWithError(serverOut[1]) THEN "Failure" ELSE "Success")
    /\ responses[1].raw = serverOut[1]

\* C11 witness: an array reply holding an error element and a null bulk
\* string was read as a Success.
C11_Witness ==
  /\ pc = "read_done"
  /\ serverOut[1] = ArrayReply(<< ErrorReply(TextERR), NullBulkReply >>)
  /\ responses[1].tag = "Success"

(***************************************************************************)
(* decodeRedisResponse: the JavaScript value of a response.  Values are    *)
(* records: a string, a number (or NaN), null, undefined, an Error with    *)
(* its message, or a list of values.                                       *)
(***************************************************************************)
JsString(text) == [type |-> "string", text |-> text]

JsNumber(number) == [type |-> "number", number |-> number]

JsNull == [type |-> "null"]

JsUndefined == [type |-> "undefined"]

JsError(message) == [type |-> "error", message |-> message]

JsList(items) == [type |-> "list", items |-> items]

\* decodeRaw: the text of UTF-8 bytes (code points below 2048); a byte that
\* starts no well-formed sequence becomes U+FFFD.
RECURSIVE decodeRaw(_)
decodeRaw(bytes) ==
  IF bytes = << >> THEN << >>
  ELSE IF Head(bytes) < 128 THEN << Head(bytes) >> \o decodeRaw(Tail(bytes))
  ELSE IF /\ Head(bytes) >= 194 /\ Head(bytes) < 224
          /\ Len(bytes) >= 2 /\ bytes[2] >= 128 /\ bytes[2] < 192
  THEN << (Head(bytes) - 192) * 64 + (bytes[2] - 128) >> \o decodeRaw(Drop(bytes, 2))
  ELSE << 65533 >> \o decodeRaw(Tail(bytes))

\* discardNCharacter (functional_io): the bytes after the first n.
discardNCharacter(n, bytes) == Drop(bytes, n)

\* Number of the text of an integer reply.
NumberOfText(text) ==
  IF text = << >> THEN JsNumber(Num(0))
  ELSE IF \A i \in 1..Len(text) : IsLengthCharacter(text[i])
  THEN JsNumber(NumberOf(text))
  ELSE JsNumber(NaN)

\* The inner cond of the bulk string branch of decodeRedisMessage.
decodeBulkMessage(bytes) ==
  IF Len(bytes) >= 2 /\ bytes[2] = CHARACTER_CODE_MINUS THEN JsNull
  ELSE IF Len(bytes) >= 2 /\ bytes[2] = CHARACTER_CODE_ZERO THEN JsString(<< >>)
  ELSE JsString(decodeRaw(trimCRLF(discardFirstLine(bytes))))

\* decodeRedisMessage; a message no branch matches gives undefined.
decodeRedisMessage(bytes) ==
  IF bytes = << >> THEN JsUndefined
  ELSE IF bytes[1] = CHARACTER_CODE_REDIS_ERROR_REPLY
  THEN JsError(decodeRaw(trimCRLF(discardNCharacter(1, bytes))))
  ELSE IF bytes[1] = CHARACTER_CODE_REDIS_SIMPLE_STRING_REPLY
  THEN JsString(decodeRaw(trimCRLF(discardNCharacter(1, bytes))))
  ELSE IF bytes[1] = CHARACTER_CODE_REDIS_INTEGER_REPLY
  THEN NumberOfText(decodeRaw(trimCRLF(discardNCharacter(1, bytes))))
  ELSE IF bytes[1] = CHARACTER_CODE_REDIS_BULK_STRING_REPLY
  THEN decodeBulkMessage(bytes)
  ELSE JsUndefined

\* decodeRedisArrayMessage: map(decodeRedisMessage) over splitRedisArray.
decodeRedisArrayMessage(bytes) ==
  LET pieces == splitRedisArray(discardFirstLine(bytes))
  IN JsList([i \in 1..Len(pieces) |-> decodeRedisMessage(pieces[i])])

decodeRedisResponse(redisResponse) ==
  IF redisResponse.raw # << >> /\ redisResponse.raw[1] = CHARACTER_CODE_REDIS_ARRAY_REPLY
  THEN decodeRedisArrayMessage(redisResponse.raw)
  ELSE decodeRedisMessage(redisResponse.raw)

(***************************************************************************)
(* SpecDecode: decodeRedisResponse or parseRedisResponse applied to the    *)
(* response of one reply.                                                  *)
(***************************************************************************)
DecodeReplies ==
  WellFormedReplies
    \cup { BulkStringReply(encodeText(TextNonAscii)), IntegerReply(0), NullArrayReply }

InitDecode ==
  /\ pc = "codec"
  /\ request = NoRequest
  /\ encoded = NotEncoded
  /\ program = << >>
  /\ cursor = 0
  /\ outbound = << >>
  /\ inbound = << >>
  /\ \E reply \in DecodeReplies :
       /\ serverOut = << reply >>
       /\ responses = << factorizeRedisResponse(reply) >>
  /\ result = << >>
  /\ calls = << >>
  /\ store = << >>
  /\ conn = "none"
  /\ closeCount = 0

DecodeResponse ==
  /\ pc = "codec"
  /\ result' = << decodeRedisResponse(responses[1]) >>
  /\ pc' = "decoded"
  /\ UNCHANGED << request, encoded, program, cursor, outbound, inbound,
                  serverOut, responses, calls, store, conn, closeCount >>

ParseResponse ==
  /\ pc = "codec"
  /\ result' = << parseRedisResponse(responses[1]) >>
  /\ pc' = "parsed"
  /\ UNCHANGED << request, encoded, program, cursor, outbound, inbound,
                  serverOut, responses, calls, store, conn, closeCount >>

NextDecode ==
  \/ DecodeResponse
  \/ ParseResponse

SpecDecode == InitDecode /\ [][NextDecode]_vars

(***************************************************************************)
(* Claims about decodeRedisResponse and parseRedisResponse (SpecDecode).   *)
(***************************************************************************)
\* The elements of an array reply, each one read by its own framing.
RECURSIVE ElementsFrom(_)
ElementsFrom(stream) ==
  IF stream = << >> THEN << >>
  ELSE LET read == readRedisResponse(stream)
       IN IF read.status # "ok" THEN << >>
          ELSE << read.response.raw >> \o ElementsFrom(read.rest)

ElementsOf(reply) == ElementsFrom(discardFirstLine(reply))

IsArrayReply(reply) == reply[1] = CHARACTER_CODE_REDIS_ARRAY_REPLY

IsScalarArrayReply(reply) ==
  /\ IsArrayReply(reply)
  /\ ElementsOf(reply) # << >>
  /\ \A i \in 1..Len(ElementsOf(reply)) : ~IsArrayReply(ElementsOf(reply)[i])

\* C12 (as claimed): an array reply of m >= 1 scalar elements decodes to the
\* list of m values, the i-th being what the i-th element decodes to alone.
C12_ArrayDecodesElementwise ==
  (pc = "decoded" /\ IsScalarArrayReply(serverOut[1])) =>
    result[1] = JsList([i \in 1..Len(ElementsOf(serverOut[1])) |->
                          decodeRedisMessage(ElementsOf(serverOut[1])[i])])

\* The value an array reply stands for, inner arrays decoded as lists.
RECURSIVE NestedDecode(_)
NestedDecode(reply) ==
  IF IsArrayReply(reply)
  THEN JsList([i \in 1..Len(ElementsOf(reply)) |-> NestedDecode(ElementsOf(reply)[i])])
  ELSE decodeRedisMessage(reply)

IsArrayOfArraysReply(reply) ==
  /\ IsArrayReply(reply)
  /\ ElementsOf(reply) # << >>
  /\ \A i \in 1..Len(ElementsOf(reply)) : IsArrayReply(ElementsOf(reply)[i])

\* C13 (as claimed): an array reply whose elements are arrays decodes to a
\* nested list, one inner list per inner array, holding that inner array's
\* decoded elements.
C13_NestedArraysDecodeNested ==
  (pc = "decoded" /\ IsArrayOfArraysReply(serverOut[1])) =>
    result[1] = NestedDecode(serverOut[1])

\* The body of a scalar reply: what follows the sigil of a line reply, the n
\* bytes after the header of a bulk string, nothing for the null bulk string.
BodyBytes(reply) ==
  IF reply[1] = CHARACTER_CODE_REDIS_BULK_STRING_REPLY
  THEN IF reply[2] = CHARACTER_CODE_MINUS THEN << >>
       ELSE LET rest == discardFirstLine(reply) IN Take(rest, Len(rest) - 2)
  ELSE SubSeq(reply, 2, Len(reply) - 2)

\* The value a scalar reply stands for.
ScalarValue(reply) ==
  IF reply[1] = CHARACTER_CODE_REDIS_SIMPLE_STRING_REPLY
  THEN JsString(decodeRaw(BodyBytes(reply)))
  ELSE IF reply[1] = CHARACTER_CODE_REDIS_INTEGER_REPLY
  THEN JsNumber(Num(DecimalValue(BodyBytes(reply))))
  ELSE IF reply[1] = CHARACTER_CODE_REDIS_ERROR_REPLY
  THEN JsError(decodeRaw(BodyBytes(reply)))
  ELSE IF reply[2] = CHARACTER_CODE_MINUS THEN JsNull
  ELSE JsString(decodeRaw(BodyBytes(reply)))

RECURSIVE JoinedBodies(_)
JoinedBodies(elements) ==
  IF elements = << >> THEN << >>
  ELSE BodyBytes(Head(elements)) \o << 10 >> \o JoinedBodies(Tail(elements))

\* C15 (as claimed): the bytes-view of a scalar reply is its body bytes, and
\* the bytes-view of an array reply of scalar elements is the elements' body
\* bytes in order, each followed by one "\n".
C15_BytesView ==
  /\ (pc = "parsed" /\ ~IsArrayReply(serverOut[1])) =>
       result[1] = Returned(BodyBytes(serverOut[1]))
  /\ (pc = "parsed" /\ IsScalarArrayReply(serverOut[1])) =>
       result[1] = Returned(JoinedBodies(ElementsOf(serverOut[1])))

(***************************************************************************)
(* SpecWrites: a caller that holds an open connection and calls            *)
(* writeRedisRequest and readRedisResponse on it in any order.             *)
(***************************************************************************)
MaxWrites == 3

WriteRequests == { RequestSetHogePiyo, RequestGetHoge }

WriteReplies == { SimpleStringReply(TextOK), BulkStringReply(TextPiyo), NullBulkReply }

InitWrites ==
  /\ pc = "connected"
  /\ request = NoRequest
  /\ encoded = NotEncoded
  /\ program = << >>
  /\ cursor = 0
  /\ outbound = << >>
  /\ inbound = << >>
  /\ serverOut = << >>
  /\ responses = << >>
  /\ result = << >>
  /\ calls = << >>
  /\ store = << >>
  /\ conn = "open"
  /\ closeCount = 0

\* writeRedisRequest(redisRequest, resource).run(): the request is encoded and
\* written; nothing else is looked at.
CallerWrite ==
  /\ pc = "connected"
  /\ Len(outbound) < MaxWrites
  /\ \E redisRequest \in WriteRequests :
       /\ request' = redisRequest
       /\ outbound' = Append(outbound, writeRedisRequest(redisRequest).bytes)
  /\ UNCHANGED << pc, encoded, program, cursor, inbound, serverOut, responses,
                  result, calls, store, conn, closeCount >>

WritesServerReply ==
  /\ ServerReply(WriteReplies)
  /\ UNCHANGED << pc, request, encoded, program, cursor, outbound, responses,
                  result, calls, store, conn, closeCount >>

\* readRedisResponse(resource).run()
CallerRead ==
  /\ pc = "connected"
  /\ LET read == readRedisResponse(inbound)
     IN /\ read.status = "ok"
        /\ responses' = Append(responses, read.response)
        /\ inbound' = read.rest
  /\ UNCHANGED << pc, request, encoded, program, cursor, outbound, serverOut,
                  result, calls, store, conn, closeCount >>

NextWrites ==
  \/ CallerWrite
  \/ WritesServerReply
  \/ CallerRead

SpecWrites == InitWrites /\ [][NextWrites]_vars

\* C16 (as claimed): a write that starts while the reply of an earlier
\* request is still unread is rejected and writes no bytes, so that the
\* connection never carries more than one request whose reply is unread.
C16_NoWriteWhileAwaiting ==
  Len(ReceivedRequests) - Len(responses) <= 1

(***************************************************************************)
(* The algebras of RedisRequest and RedisResponse: equals, lte, concat,    *)
(* empty.  The accumulator of the reduce in equals and lte is the other    *)
(* container's raw bytes or a boolean.                                     *)
(***************************************************************************)
AccumulatorBytes(bytes) == [array |-> TRUE, bytes |-> bytes, bool |-> FALSE]

AccumulatorBoolean(bool) == [array |-> FALSE, bytes |-> << >>, bool |-> bool]

\* !!accumulator: a Uint8Array is truthy, even an empty one.
Truthy(accumulator) == accumulator.array \/ accumulator.bool

\* accumulator[index] == value, index counted from 0
AccumulatorAtEquals(accumulator, index, value) ==
  /\ accumulator.array
  /\ index + 1 <= Len(accumulator.bytes)
  /\ accumulator.bytes[index + 1] = value

\* accumulator[index] > value
AccumulatorAtGreater(accumulator, index, value) ==
  /\ accumulator.array
  /\ index + 1 <= Len(accumulator.bytes)
  /\ accumulator.bytes[index + 1] > value

\* A reducer that never looks at the bytes.
equalsReducerBlind(accumulator, value, index) == accumulator

\* accumulator && accumulator[index] == value ? accumulator : false
equalsReducer(accumulator, value, index) ==
  IF Truthy(accumulator) /\ AccumulatorAtEquals(accumulator, index, value)
  THEN accumulator
  ELSE AccumulatorBoolean(FALSE)

\* !accumulator && accumulator[index] > value ? accumulator : true
lteReducer(accumulator, value, index) ==
  IF ~Truthy(accumulator) /\ AccumulatorAtGreater(accumulator, index, value)
  THEN accumulator
  ELSE AccumulatorBoolean(TRUE)

RECURSIVE equalsReduce(_, _, _)
equalsReduce(accumulator, bytes, index) ==
  IF index >= Len(bytes) THEN accumulator
  ELSE equalsReduce(equalsReducer(accumulator, bytes[index + 1], index), bytes, index + 1)

RECURSIVE lteReduce(_, _, _)
lteReduce(accumulator, bytes, index) ==
  IF index >= Len(bytes) THEN accumulator
  ELSE lteReduce(lteReducer(accumulator, bytes[index + 1], index), bytes, index + 1)

\* RedisRequest.prototype.equals and RedisResponse.prototype.equals
equals(this, container) ==
  /\ Len(this.raw) = Len(container.raw)
  /\ Truthy(equalsReduce(AccumulatorBytes(container.raw), this.raw, 0))

\* RedisRequest.prototype.lte and RedisResponse.prototype.lte
lte(this, container) ==
  /\ Len(this.raw) <= Len(container.raw)
  /\ Truthy(lteReduce(AccumulatorBytes(container.raw), this.raw, 0))

\* A concat that takes the command and the arguments of its argument.
concatKeepingRight(this, container) ==
  RedisRequest(container.command, this.raw \o container.raw, container.arguments)

\* RedisRequest.prototype.concat
concat(this, container) ==
  RedisRequest(this.command, this.raw \o container.raw, this.arguments)

\* RedisRequest.empty()
empty == RedisRequest(<< >>, << >>, << >>)

\* RedisResponse.prototype.concat
concatResponse(this, container) == Success(this.raw \o container.raw)

\* RedisResponse.empty()
emptyResponse == Success(<< >>)

(***************************************************************************)
(* SpecAlgebra: equals, lte and concat applied to three requests and to    *)
(* the three responses that carry the same bytes.                          *)
(***************************************************************************)
MaxRawLength == 2

AlgebraRaws == SeqsUpTo({ 112, CHARACTER_CODE_MINUS }, MaxRawLength)

AlgebraRequests ==
  { RedisRequest(CommandSET, raw, << Text(TextHoge), Placeholder >>) : raw \in AlgebraRaws }
    \cup { RedisRequest(CommandGET, raw, << Text(TextHoge) >>) : raw \in AlgebraRaws }

InitAlgebra ==
  /\ pc = "algebra"
  /\ request = NoRequest
  /\ encoded = NotEncoded
  /\ \E a \in AlgebraRequests, b \in AlgebraRequests, c \in AlgebraRequests :
       /\ program = << a, b, c >>
       /\ responses = << Success(a.raw), Failure(b.raw), Success(c.raw) >>
  /\ cursor = 0
  /\ outbound = << >>
  /\ inbound = << >>
  /\ serverOut = << >>
  /\ result = << >>
  /\ calls = << >>
  /\ store = << >>
  /\ conn = "none"
  /\ closeCount = 0

\* x.equals(y) and x.lte(y) for every pair of the requests and of the
\* responses.
CompareOperands ==
  /\ pc = "algebra"
  /\ result' =
       [equals |-> [i \in 1..3 |-> [j \in 1..3 |-> equals(program[i], program[j])]],
        lte |-> [i \in 1..3 |-> [j \in 1..3 |-> lte(program[i], program[j])]],
        equalsResponse |->
          [i \in 1..3 |-> [j \in 1..3 |-> equals(responses[i], responses[j])]],
        lteResponse |->
          [i \in 1..3 |-> [j \in 1..3 |-> lte(responses[i], responses[j])]]]
  /\ pc' = "compared"
  /\ UNCHANGED << request, encoded, program, cursor, outbound, inbound,
                  serverOut, responses, calls, store, conn, closeCount >>

\* a.concat(empty()), empty().concat(a), a.concat(b), a.concat(b).concat(c)
\* and a.concat(b.concat(c)); x.concat(RedisResponse.empty()) for each response.
ConcatOperands ==
  /\ pc = "algebra"
  /\ result' =
       [withEmpty |-> concat(program[1], empty),
        emptyWith |-> concat(empty, program[1]),
        pair |-> concat(program[1], program[2]),
        leftFirst |-> concat(concat(program[1], program[2]), program[3]),
        rightFirst |-> concat(program[1], concat(program[2], program[3])),
        pairResponse |-> concatResponse(responses[1], responses[2]),
        responseWithEmpty |->
          [i \in 1..3 |-> concatResponse(responses[i], emptyResponse)]]
  /\ pc' = "concatenated"
  /\ UNCHANGED << request, encoded, program, cursor, outbound, inbound,
                  serverOut, responses, calls, store, conn, closeCount >>

NextAlgebra ==
  \/ CompareOperands
  \/ ConcatOperands

SpecAlgebra == InitAlgebra /\ [][NextAlgebra]_vars

\* C17 (as claimed): lte on requests and on responses is total, and
\* antisymmetric up to equals: x.lte(y) and y.lte(x) imply x.equals(y).
C17_LteTotalAntisymmetric ==
  pc = "compared" =>
    \A i \in 1..3, j \in 1..3 :
      /\ result.lte[i][j] \/ result.lte[j][i]
      /\ (result.lte[i][j] /\ result.lte[j][i]) => result.equals[i][j]
      /\ result.lteResponse[i][j] \/ result.lteResponse[j][i]
      /\ (result.lteResponse[i][j] /\ result.lteResponse[j][i])
           => result.equalsResponse[i][j]

\* C18: equals on requests is reflexive, symmetric and transitive, and it
\* holds exactly when the two payloads are the same bytes, whatever the
\* commands and the arguments of the two requests are.
C18_EqualsIsPayloadEquality ==
  pc = "compared" =>
    /\ \A i \in 1..3 : result.equals[i][i]
    /\ \A i \in 1..3, j \in 1..3 :
         /\ result.equals[i][j] = result.equals[j][i]
         /\ result.equals[i][j] = (program[i].raw = program[j].raw)
    /\ \A i \in 1..3, j \in 1..3, k \in 1..3 :
         (result.equals[i][j] /\ result.equals[j][k]) => result.equals[i][k]

\* C18 witness: two requests with different commands and arguments and the
\* same two-byte payload were found equal, and a third one of the same length
\* and other bytes was found different.
C18_Witness ==
  /\ pc = "compared"
  /\ program[1].command # program[2].command
  /\ program[1].raw = << 112, CHARACTER_CODE_MINUS >>
  /\ program[2].raw = program[1].raw
  /\ program[3].raw = << CHARACTER_CODE_MINUS, 112 >>
  /\ result.equals[1][2]
  /\ ~result.equals[1][3]

\* C19: r.concat(empty()) and empty().concat(r) have r's payload, concat is
\* associative on payloads, and a.concat(b) has a's command and a's
\* arguments and the payload of a followed by the payload of b.
C19_ConcatMonoidOnPayloads ==
  pc = "concatenated" =>
    /\ result.withEmpty.raw = program[1].raw
    /\ result.emptyWith.raw = program[1].raw
    /\ result.leftFirst.raw = result.rightFirst.raw
    /\ result.leftFirst.raw = program[1].raw \o program[2].raw \o program[3].raw
    /\ result.pair.raw = program[1].raw \o program[2].raw
    /\ result.pair.command = program[1].command
    /\ result.pair.arguments = program[1].arguments
    /\ result.withEmpty = program[1]

\* C19 witness: a SET with payload "p-" was concatenated with a GET with
\* payload "-".
C19_Witness ==
  /\ pc = "concatenated"
  /\ program[1].command = CommandSET
  /\ program[2].command = CommandGET
  /\ program[1].raw = << 112, CHARACTER_CODE_MINUS >>
  /\ program[2].raw = << CHARACTER_CODE_MINUS >>
  /\ result.pair = RedisRequest(CommandSET, << 112, 45, 45 >>,
                                << Text(TextHoge), Placeholder >>)

(***************************************************************************)
(* Options objects.  An options object is the sequence of its entries in   *)
(* iteration order; a value is a string, a number, a boolean or a list of  *)
(* strings.                                                                *)
(***************************************************************************)
OptionString(text) ==
  [kind |-> "string", text |-> text, number |-> 0, bool |-> FALSE, items |-> << >>]

OptionNumber(n) ==
  [kind |-> "number", text |-> << >>, number |-> n, bool |-> FALSE, items |-> << >>]

OptionBoolean(b) ==
  [kind |-> "boolean", text |-> << >>, number |-> 0, bool |-> b, items |-> << >>]

OptionList(items) ==
  [kind |-> "list", text |-> << >>, number |-> 0, bool |-> FALSE, items |-> items]

OptionEntry(key, value) == [key |-> key, value |-> value]

\* "EX", "KEEPTTL", "STORE", "ALPHA", "*", "#", "true", "false"
OptionKeyEX == << 69, 88 >>

OptionKeyKEEPTTL == << 75, 69, 69, 80, 84, 84, 76 >>

OptionKeySTORE == << 83, 84, 79, 82, 69 >>

OptionKeyALPHA == << 65, 76, 80, 72, 65 >>

PatternStar == << 42 >>

PatternHash == << 35 >>

TextTrue == << 116, 114, 117, 101 >>

TextFalse == << 102, 97, 108, 115, 101 >>

\* toPairs: one [ key, value ] pair per entry, in iteration order.
toPairs(options) ==
  [i \in 1..Len(options) |-> << OptionString(options[i].key), options[i].value >>]

\* reduce((accumulator, pattern) => [ ...accumulator, 'GET', pattern ], [], value)
RECURSIVE spreadGetPatterns(_, _)
spreadGetPatterns(accumulator, patterns) ==
  IF patterns = << >> THEN accumulator
  ELSE spreadGetPatterns(accumulator \o << OptionString(CommandGET), Head(patterns) >>,
                         Tail(patterns))

\* ([ key, value ]) => key === "GET" ? reduce(...) : [ key, value ]
spreadPair(pair) ==
  IF pair[1].text = CommandGET THEN spreadGetPatterns(<< >>, pair[2].items)
  ELSE pair

\* flatten: every list, at any depth, is replaced by its items.
RECURSIVE flatten(_)
flatten(list) ==
  IF list = << >> THEN << >>
  ELSE (IF Head(list).kind = "list" THEN flatten(Head(list).items)
        ELSE << Head(list) >>) \o flatten(Tail(list))

assertIsBoolean(value) == value.kind = "boolean"

\* String(value) for a value that is not a string.
String(value) ==
  IF value.kind = "number" THEN OptionString(DecimalText(value.number))
  ELSE IF value.kind = "boolean"
    THEN OptionString(IF value.bool THEN TextTrue ELSE TextFalse)
  ELSE value

\* when(complement(assertIsString), String)
normalizeValue(value) == IF value.kind = "string" THEN value ELSE String(value)

normalizeOptions(list) == [i \in 1..Len(list) |-> normalizeValue(list[i])]

\* compose(normalizeOptions, filter(complement(assertIsBoolean)), flatten,
\* map(...), toPairs): every array that map returns is a list for flatten.
spreadOptions(options) ==
  normalizeOptions(
    SelectSeq(
      flatten([i \in 1..Len(options) |-> OptionList(spreadPair(toPairs(options)[i]))]),
      LAMBDA value : ~assertIsBoolean(value)))

OptionArguments(options) ==
  [i \in 1..Len(spreadOptions(options)) |-> Text(spreadOptions(options)[i].text)]

\* RedisRequest.set(options, key, value)
set(options, key, value) ==
  RedisRequest(CommandSET,
    IF value.buffer THEN value.bytes ELSE << >>,
    << Text(key), IF value.buffer THEN Placeholder ELSE Text(value.bytes) >>
      \o OptionArguments(options))

\* "SORT"
CommandSORT == << 83, 79, 82, 84 >>

\* RedisRequest.sort(options, key)
sort(options, key) ==
  RedisRequest(CommandSORT, << >>, << Text(key) >> \o OptionArguments(options))

(***************************************************************************)
(* SpecOptions: set and sort called with an options object of at most      *)
(* MaxOptions entries.                                                     *)
(***************************************************************************)
MaxOptions == 3

ExpirySeconds == 2000

OptionEntries ==
  { OptionEntry(OptionKeyEX, OptionNumber(ExpirySeconds)),
    OptionEntry(OptionKeyKEEPTTL, OptionBoolean(TRUE)),
    OptionEntry(OptionKeyKEEPTTL, OptionBoolean(FALSE)),
    OptionEntry(OptionKeySTORE, OptionString(TextFuga)),
    OptionEntry(OptionKeyALPHA, OptionBoolean(TRUE)),
    OptionEntry(CommandGET,
                OptionList(<< OptionString(PatternStar), OptionString(PatternHash) >>)) }

\* The keys of an object are distinct.
OptionObjects ==
  { options \in SeqsUpTo(OptionEntries, MaxOptions) :
      \A i \in 1..Len(options), j \in 1..Len(options) :
        options[i].key = options[j].key => i = j }

InitOptions ==
  /\ pc = "options"
  /\ request = NoRequest
  /\ encoded = NotEncoded
  /\ program \in OptionObjects
  /\ cursor = 0
  /\ outbound = << >>
  /\ inbound = << >>
  /\ serverOut = << >>
  /\ responses = << >>
  /\ result = << >>
  /\ calls = << >>
  /\ store = << >>
  /\ conn = "none"
  /\ closeCount = 0

SetWithOptions ==
  /\ pc = "options"
  /\ request' = set(program, TextHoge, StringValue(TextPiyo))
  /\ pc' = "set"
  /\ UNCHANGED << encoded, program, cursor, outbound, inbound, serverOut,
                  responses, result, calls, store, conn, closeCount >>

SortWithOptions ==
  /\ pc = "options"
  /\ request' = sort(program, TextHoge)
  /\ pc' = "sorted"
  /\ UNCHANGED << encoded, program, cursor, outbound, inbound, serverOut,
                  responses, result, calls, store, conn, closeCount >>

NextOptions ==
  \/ SetWithOptions
  \/ SortWithOptions

SpecOptions == InitOptions /\ [][NextOptions]_vars

\* What an entry contributes: its key alone when its value is true, nothing
\* when it is false, one GET and pattern pair per pattern for the GET clause,
\* its key and its value in decimal or as it is otherwise.
EntryContribution(entry) ==
  IF entry.value.kind = "boolean"
    THEN (IF entry.value.bool THEN << Text(entry.key) >> ELSE << >>)
  ELSE IF entry.value.kind = "list"
    THEN Flatten([i \in 1..Len(entry.value.items) |->
                    << Text(CommandGET), Text(entry.value.items[i].text) >>])
  ELSE IF entry.value.kind = "number"
    THEN << Text(entry.key), Text(DecimalText(entry.value.number)) >>
  ELSE << Text(entry.key), Text(entry.value.text) >>

OptionsContribution(options) ==
  Flatten([i \in 1..Len(options) |-> EntryContribution(options[i])])

\* C20 (as claimed): the arguments that set and sort add for the options are
\* the contributions of the entries in iteration order: the key alone for a
\* true value, nothing for a false value, the key and the stringified value
\* otherwise.
C20_OptionsFlattened ==
  /\ pc = "set" =>
       request.arguments
         = << Text(TextHoge), Text(TextPiyo) >> \o OptionsContribution(program)
  /\ pc = "sorted" =>
       request.arguments = << Text(TextHoge) >> \o OptionsContribution(program)

(***************************************************************************)
(* SpecExpire: RedisRequest.expireat called with a Date or with a number.  *)
(* A Date is its time value, the milliseconds since the epoch.             *)
(***************************************************************************)
DateValue(time) == [date |-> TRUE, time |-> time]

NumberValue(number) == [date |-> FALSE, time |-> number]

\* Date.prototype.valueOf
valueOf(timestamp) == timestamp.time

\* "EXPIREAT"
CommandEXPIREAT == << 69, 88, 80, 73, 82, 69, 65, 84 >>

\* RedisRequest.expireat(timestamp, key)
expireat(timestamp, key) ==
  RedisRequest(CommandEXPIREAT, << >>,
    << Text(key),
       Text(normalizeValue(
              OptionNumber(IF timestamp.date THEN valueOf(timestamp)
                           ELSE timestamp.time)).text) >>)

\* Instants are taken every half second up to MaxHalfSeconds half seconds.
MaxHalfSeconds == 30

ExpireTimes == { 500 * k : k \in 0..MaxHalfSeconds }

ExpireTimestamps ==
  { DateValue(time) : time \in ExpireTimes }
    \cup { NumberValue(number) : number \in ExpireTimes }

InitExpire ==
  /\ pc = "expire"
  /\ request = NoRequest
  /\ encoded = NotEncoded
  /\ \E timestamp \in ExpireTimestamps, key \in { TextHoge, TextFuga } :
       program = << timestamp, key >>
  /\ cursor = 0
  /\ outbound = << >>
  /\ inbound = << >>
  /\ serverOut = << >>
  /\ responses = << >>
  /\ result = << >>
  /\ calls = << >>
  /\ store = << >>
  /\ conn = "none"
  /\ closeCount = 0

ExpireAt ==
  /\ pc = "expire"
  /\ request' = expireat(program[1], program[2])
  /\ pc' = "expireat"
  /\ UNCHANGED << encoded, program, cursor, outbound, inbound, serverOut,
                  responses, result, calls, store, conn, closeCount >>

NextExpire == ExpireAt

SpecExpire == InitExpire /\ [][NextExpire]_vars

\* The UNIX time in whole seconds of an instant given in milliseconds.
UnixSeconds(time) == time \div 1000

\* C21 (as claimed): the timestamp argument of expireat is the UNIX time in
\* integer seconds of a Date, and is the number itself for a number.
C21_ExpireAtSeconds ==
  pc = "expireat" =>
    request.arguments
      = << Text(program[2]),
           Text(DecimalText(IF program[1].date THEN UnixSeconds(program[1].time)
                            ELSE program[1].time)) >>

(***************************************************************************)
(* The session's body is executeRedisCommand(request): C22 and C23 are     *)
(* stated over SpecSession.                                                *)
(***************************************************************************)
AnsweredWithError ==
  /\ serverOut # << >>
  /\ serverOut[1][1] = CHARACTER_CODE_REDIS_ERROR_REPLY

\* C22: when the server answers the request with an error reply, the task of
\* executeRedisCommand does not fail, it resolves with the Failure that
\* carries the bytes of the error reply, and the bytes of the request were
\* written exactly once: nothing is sent again and nothing more is read.
C22_ErrorReplyIsReturned ==
  AnsweredWithError =>
    /\ pc # "session_failed"
    /\ outbound = << encoded.bytes >>
    /\ Len(serverOut) = 1
    /\ pc \in { "session_close", "session_done" } =>
         /\ responses = << Failure(serverOut[1]) >>
         /\ inbound = << >>

\* C22 witness: the command has resolved with the Failure of -ERR.
C22_Witness ==
  /\ pc = "session_close"
  /\ serverOut = << ErrorReply(TextERR) >>
  /\ responses = << Failure(ErrorReply(TextERR)) >>
  /\ Len(outbound) = 1

\* C23: the body's writes and reads take place on the opened connection
\* only, and the connection is closed only when the body's task has
\* finished: a closed connection means that the body has its response and
\* that the session is over.
C23_BodyBetweenOpenAndClose ==
  /\ pc \in { "session_write", "session_read", "session_close" } => conn = "open"
  /\ (outbound # << >> \/ responses # << >>) => conn \in { "open", "closed" }
  /\ conn = "closed" =>
       /\ pc = "session_done"
       /\ Len(outbound) = 1
       /\ Len(responses) = 1
  /\ conn \in { "none", "refused" } => closeCount = 0

\* C23 witness: the session is over, the body has written and read, and the
\* connection was closed after that.
C23_Witness ==
  /\ pc = "session_done"
  /\ conn = "closed"
  /\ closeCount = 1
  /\ Len(outbound) = 1
  /\ Len(responses) = 1

(***************************************************************************)
(* SpecHeaders: readRedisResponse applied to a stream that starts with a   *)
(* line made of a first byte and of up to MaxLengthCharacters characters:  *)
(* the null array, the empty array, headers whose length is no decimal     *)
(* integer, and lines with an unknown first byte.                          *)
(***************************************************************************)
MaxLengthCharacters == 2

\* The characters "p", "-", "0" and "1".
LengthTexts ==
  SeqsUpTo({ 112, CHARACTER_CODE_MINUS, CHARACTER_CODE_ZERO, CHARACTER_CODE_ZERO + 1 },
           MaxLengthCharacters)

\* First bytes: "$", "*", and "!" and "p", which are no sigil.
HeaderLines ==
  { << first >> \o text \o CRLF :
      first \in { CHARACTER_CODE_REDIS_BULK_STRING_REPLY,
                  CHARACTER_CODE_REDIS_ARRAY_REPLY, 33, 112 },
      text \in LengthTexts }

InitHeaders ==
  /\ pc = "read"
  /\ request = NoRequest
  /\ encoded = NotEncoded
  /\ program = << >>
  /\ cursor = 0
  /\ outbound = << >>
  /\ \E line \in HeaderLines, tail \in StreamTails :
       /\ serverOut = << line, tail >>
       /\ inbound = line \o tail
  /\ responses = << >>
  /\ result = << >>
  /\ calls = << >>
  /\ store = << >>
  /\ conn = "open"
  /\ closeCount = 0

NextHeaders == ReadResponse

SpecHeaders == InitHeaders /\ [][NextHeaders]_vars

\* C24 (as claimed): reading the null array *-1 and the empty array *0 ends
\* with a response whose bytes are the header line, and leaves the stream
\* right after that line.
C24_NullAndEmptyArrayRead ==
  serverOut[1] \in { NullArrayReply, EmptyArrayReply } =>
    /\ pc \in { "read", "read_done" }
    /\ pc = "read_done" =>
         /\ responses = << Success(serverOut[1]) >>
         /\ inbound = serverOut[2]

\* A decimal integer: digits, with or without a minus sign in front.
IsDecimalInteger(text) ==
  /\ text # << >>
  /\ \A i \in 1..Len(text) :
       \/ text[i] \in CHARACTER_CODE_ZERO..(CHARACTER_CODE_ZERO + 9)
       \/ (i = 1 /\ text[i] = CHARACTER_CODE_MINUS /\ Len(text) > 1)

\* The line has no sigil in front, or it is a $ or * header without a decimal
\* integer.
IsProtocolViolation(line) ==
  \/ line[1] \notin { CHARACTER_CODE_REDIS_SIMPLE_STRING_REPLY,
                      CHARACTER_CODE_REDIS_ERROR_REPLY,
                      CHARACTER_CODE_REDIS_INTEGER_REPLY,
                      CHARACTER_CODE_REDIS_BULK_STRING_REPLY,
                      CHARACTER_CODE_REDIS_ARRAY_REPLY }
  \/ /\ line[1] \in { CHARACTER_CODE_REDIS_BULK_STRING_REPLY,
                      CHARACTER_CODE_REDIS_ARRAY_REPLY }
     /\ ~IsDecimalInteger(SubSeq(line, 2, Len(line) - 2))

\* C26 (as claimed): a line whose first byte is no sigil, and a $ or * header
\* whose length is no decimal integer, make readRedisResponse fail: no
\* response is returned.
C26_ViolationsFail ==
  IsProtocolViolation(serverOut[1]) =>
    /\ pc \in { "read", "read_failed" }
    /\ responses = << >>

\* C25 (as claimed): the empty array *0 and the null array *-1 decode to the
\* list of no element.
C25_EmptyAndNullArrayDecodeEmpty ==
  (pc = "decoded" /\ serverOut[1] \in { EmptyArrayReply, NullArrayReply })
    => result = << JsList(<< >>) >>

(***************************************************************************)
(* The shorthands with a value slot.  A value is a string or a Uint8Array. *)
(***************************************************************************)
\* assertIsInstance(Uint8Array, value) ? value : new Uint8Array([])
valuePayload(value) == IF value.buffer THEN value.bytes ELSE << >>

\* assertIsString(value) ? value : $$rawPlaceholder
valueArgument(value) == IF value.buffer THEN Placeholder ELSE Text(value.bytes)

\* RedisRequest.append(key, value)
append(key, value) ==
  RedisRequest(<< 65, 80, 80, 69, 78, 68 >>, valuePayload(value),
    << Text(key), valueArgument(value) >>)

\* RedisRequest.getset(key, value)
getset(key, value) ==
  RedisRequest(<< 71, 69, 84, 83, 69, 84 >>, valuePayload(value),
    << Text(key), valueArgument(value) >>)

\* RedisRequest.psetex(ttl, key, value)
psetex(ttl, key, value) ==
  RedisRequest(<< 80, 83, 69, 84, 69, 88 >>, valuePayload(value),
    << Text(key), Text(normalizeValue(OptionNumber(ttl)).text), valueArgument(value) >>)

\* RedisRequest.setex(ttl, key, value)
setex(ttl, key, value) ==
  RedisRequest(<< 83, 69, 84, 69, 88 >>, valuePayload(value),
    << Text(key), Text(normalizeValue(OptionNumber(ttl)).text), valueArgument(value) >>)

\* RedisRequest.setnx(key, value)
setnx(key, value) ==
  RedisRequest(<< 83, 69, 84, 78, 88 >>, valuePayload(value),
    << Text(key), valueArgument(value) >>)

\* RedisRequest.setrange(key, offset, value)
setrange(key, offset, value) ==
  RedisRequest(<< 83, 69, 84, 82, 65, 78, 71, 69 >>, valuePayload(value),
    << Text(key), Text(normalizeValue(OptionNumber(offset)).text), valueArgument(value) >>)

\* RedisRequest.restore({ ttl, ...options }, key, value)
restore(ttl, options, key, value) ==
  RedisRequest(<< 82, 69, 83, 84, 79, 82, 69 >>, valuePayload(value),
    << Text(key), Text(normalizeValue(OptionNumber(ttl)).text), valueArgument(value) >>
      \o OptionArguments(options))

\* RedisRequest.hmset(key, field, value) with one field given as a string
hmset(key, field, value) ==
  RedisRequest(<< 72, 77, 83, 69, 84 >>, valuePayload(value),
    << Text(key), Text(field), valueArgument(value) >>)

\* RedisRequest.hset(key, field, value)
hset(key, field, value) ==
  RedisRequest(<< 72, 83, 69, 84 >>, valuePayload(value),
    << Text(key), Text(field), valueArgument(value) >>)

\* RedisRequest.hsetnx(key, field, value)
hsetnx(key, field, value) ==
  RedisRequest(<< 72, 83, 69, 84, 78, 88 >>, valuePayload(value),
    << Text(key), Text(field), valueArgument(value) >>)

(***************************************************************************)
(* SpecShorthands: one value-slot shorthand called with a string or with a *)
(* Uint8Array of up to MaxPayloadUnits units.                              *)
(***************************************************************************)
ShorthandNames ==
  { "append", "getset", "set", "setex", "psetex", "setnx", "setrange", "hset", "hsetnx", "hmset", "restore" }

ShorthandValues ==
  { StringValue(text) : text \in Payloads } \cup { BufferValue(bytes) : bytes \in Payloads }

callShorthand(name, value) ==
  CASE name = "append" -> append(TextHoge, value)
    [] name = "getset" -> getset(TextHoge, value)
    [] name = "set" -> set(<< >>, TextHoge, value)
    [] name = "setex" -> setex(ExpirySeconds, TextHoge, value)
    [] name = "psetex" -> psetex(ExpirySeconds, TextHoge, value)
    [] name = "setnx" -> setnx(TextHoge, value)
    [] name = "setrange" -> setrange(TextHoge, ExpirySeconds, value)
    [] name = "hset" -> hset(TextHoge, TextFuga, value)
    [] name = "hsetnx" -> hsetnx(TextHoge, TextFuga, value)
    [] name = "hmset" -> hmset(TextHoge, TextFuga, value)
    [] name = "restore" -> restore(ExpirySeconds, << >>, TextHoge, value)

InitShorthands ==
  /\ pc = "shorthand"
  /\ request = NoRequest
  /\ encoded = NotEncoded
  /\ \E name \in ShorthandNames, value \in ShorthandValues :
       program = << name, value >>
  /\ cursor = 0
  /\ outbound = << >>
  /\ inbound = << >>
  /\ serverOut = << >>
  /\ responses = << >>
  /\ result = << >>
  /\ calls = << >>
  /\ store = << >>
  /\ conn = "none"
  /\ closeCount = 0

CallShorthand ==
  /\ pc = "shorthand"
  /\ request' = callShorthand(program[1], program[2])
  /\ pc' = "built"
  /\ UNCHANGED << encoded, program, cursor, outbound, inbound, serverOut,
                  responses, result, calls, store, conn, closeCount >>

NextShorthands == CallShorthand

SpecShorthands == InitShorthands /\ [][NextShorthands]_vars

\* C27 (as claimed): the request a value-slot shorthand returns has no
\* placeholder and an empty payload for a string value, and one placeholder
\* and a payload that supplies exactly one segment to the encoder for a
\* Uint8Array value, the empty one and those that hold CR LF included.
C27_ValueSlotInvariant ==
  pc = "built" =>
    IF program[2].buffer
    THEN /\ NumPlaceholders(request.arguments) = 1
         /\ request.raw = program[2].bytes
         /\ Len(splitCLRF(request.raw)) = 1
    ELSE /\ NumPlaceholders(request.arguments) = 0
         /\ request.raw = << >>

(***************************************************************************)
(* SpecFrame: values and the Uint8Arrays they refer to.  store is the heap *)
(* of the Uint8Arrays, the raw of a value is the index of its array,       *)
(* program lists the values in the order of their creation and result      *)
(* holds, for each of them, what it was when it was created.               *)
(***************************************************************************)
ValueOnHeap(type, command, reference, arguments) ==
  [type |-> type, command |-> command, raw |-> reference, arguments |-> arguments]

\* The value with its bytes in the place of the reference.
Dereference(heap, value) == [value EXCEPT !.raw = heap[value.raw]]

Operated(heap, value) == [heap |-> heap, value |-> value]

\* Uint8Array.prototype.reverse: the array itself is reversed.
reverse(heap, reference) == [heap EXCEPT ![reference] = Reverse(@)]

\* RedisRequest.prototype.invert
invert(heap, this) ==
  Operated(reverse(heap, this.raw),
           ValueOnHeap("RedisRequest", this.command, this.raw, this.arguments))

\* RedisResponse.prototype.invert
invertResponse(heap, this) ==
  IF this.type = "Failure" THEN Operated(heap, this)
  ELSE Operated(reverse(heap, this.raw),
                ValueOnHeap("Success", this.command, this.raw, this.arguments))

\* concat of RedisRequest and of RedisResponse: new Uint8Array([ ... ])
concatOnHeap(heap, this, container) ==
  LET bytes == IF this.type = "RedisRequest"
               THEN concat(Dereference(heap, this), Dereference(heap, container)).raw
               ELSE concatResponse(Dereference(heap, this),
                                   Dereference(heap, container)).raw
  IN Operated(Append(heap, bytes),
              ValueOnHeap(IF this.type = "RedisRequest" THEN "RedisRequest" ELSE "Success",
                          this.command, Len(heap) + 1, this.arguments))

\* map(unaryFunction) with a unaryFunction that returns the array it is given.
mapOnHeap(heap, this) ==
  IF this.type = "Failure" THEN Operated(heap, this)
  ELSE Operated(heap, ValueOnHeap(this.type, this.command, this.raw, this.arguments))

MaxOperations == 2

FrameRaws == { << >>, << CHARACTER_CODE_MINUS >>, << 112, CHARACTER_CODE_MINUS >> }

\* What a value is at its creation.
Snapshot(heap, value) == Dereference(heap, value)

InitFrame ==
  /\ pc = "frame"
  /\ request = NoRequest
  /\ encoded = NotEncoded
  /\ \E a \in FrameRaws, b \in FrameRaws :
       /\ store = << a, b >>
       /\ \/ program = << ValueOnHeap("RedisRequest", CommandSET, 1,
                                      << Text(TextHoge), Placeholder >>),
                          ValueOnHeap("RedisRequest", CommandGET, 2,
                                      << Text(TextHoge) >>) >>
          \/ \E s \in { "Success", "Failure" }, t \in { "Success", "Failure" } :
               program = << ValueOnHeap(s, << >>, 1, << >>),
                            ValueOnHeap(t, << >>, 2, << >>) >>
       /\ result = [i \in 1..2 |-> Snapshot(store, program[i])]
  /\ cursor = 0
  /\ outbound = << >>
  /\ inbound = << >>
  /\ serverOut = << >>
  /\ responses = << >>
  /\ calls = << >>
  /\ conn = "none"
  /\ closeCount = 0

\* The operation has returned a value: it is the newest of the values.
FrameReturn(operated, name) ==
  /\ store' = operated.heap
  /\ program' = Append(program, operated.value)
  /\ result' = Append(result, Snapshot(operated.heap, operated.value))
  /\ calls' = Append(calls, name)
  /\ UNCHANGED << pc, request, encoded, cursor, outbound, inbound, serverOut,
                  responses, conn, closeCount >>

FrameConcat ==
  /\ Len(calls) < MaxOperations
  /\ \E i \in 1..Len(program), j \in 1..Len(program) :
       FrameReturn(concatOnHeap(store, program[i], program[j]), "concat")

FrameInvert ==
  /\ Len(calls) < MaxOperations
  /\ \E i \in 1..Len(program) :
       FrameReturn(IF program[i].type = "RedisRequest"
                   THEN invert(store, program[i])
                   ELSE invertResponse(store, program[i]), "invert")

FrameMap ==
  /\ Len(calls) < MaxOperations
  /\ \E i \in 1..Len(program) :
       FrameReturn(mapOnHeap(store, program[i]), "map")

\* equals, lte and extract read the two arrays and create no value.
FrameCompare ==
  /\ Len(calls) < MaxOperations
  /\ \E i \in 1..Len(program), j \in 1..Len(program) :
       responses' =
         Append(responses,
                << equals(Dereference(store, program[i]), Dereference(store, program[j])),
                   lte(Dereference(store, program[i]), Dereference(store, program[j])) >>)
  /\ calls' = Append(calls, "compare")
  /\ UNCHANGED << pc, request, encoded, program, cursor, outbound, inbound,
                  serverOut, result, store, conn, closeCount >>

NextFrame ==
  \/ FrameConcat
  \/ FrameInvert
  \/ FrameMap
  \/ FrameCompare

SpecFrame == InitFrame /\ [][NextFrame]_vars

\* C28 (as claimed): whatever operations were carried out, every value
\* created so far has the command, the payload bytes and the arguments it had
\* when it was created.
C28_ValuesNeverChange ==
  \A i \in 1..Len(program) : Dereference(store, program[i]) = result[i]

\* C29 (as claimed): x.concat(RedisResponse.empty()) is x, with the tag and
\* the bytes of x, for a Success and for a Failure.
C29_ResponseRightIdentity ==
  pc = "concatenated" =>
    \A i \in 1..3 : result.responseWithEmpty[i] = responses[i]

\* The bytes-view of a Failure: the message of an error reply, no byte for
\* the null bulk string.
FailureBytesView(reply) ==
  IF reply = NullBulkReply THEN << >> ELSE SubSeq(reply, 2, Len(reply) - 2)

====
